---------------------------- MODULE Spec2Model ----------------------------
(***************************************************************************)
(* Report store (server/data/roadReports.js), the report submission and   *)
(* the route annotation of the smart-roads server (POST /api/reports,      *)
(* POST /api/routes/alternatives), the route collection of the route       *)
(* service (server/services/routeService.js), the route list of the        *)
(* client (client/src/components/RouteList.js), the place-search cache and *)
(* the dashboard sessions of the server index, and the cached database     *)
(* connection (server/config/database.js).                                 *)
(*                                                                         *)
(* Representation                                                          *)
(*  - a JavaScript string is a tuple of one-character strings, so that     *)
(*    toLowerCase, trim, includes and the road-code regular expression are *)
(*    computed character by character;                                     *)
(*  - an optional value (undefined / null) is the empty tuple None, a      *)
(*    present value v is the one-element tuple <<v>>;                      *)
(*  - a timestamp is a number of minutes since 1970-01-01T00:00 (a         *)
(*    Thursday), the server's time zone being UTC;                         *)
(*  - a coordinate is an integer number of 1e-4 degrees.                   *)
(***************************************************************************)
EXTENDS Integers, Sequences, FiniteSets, TLC

VARIABLES
    reports,    \* roadReports.js: let reports = []   (the stored reports, in order)
    nextId,     \* roadReports.js: let nextId = 1
    now,        \* the server clock (Date.now()), in minutes
    call,       \* the operation handled last, with its arguments
    ret,        \* what that operation returned
    inflight,   \* POST /api/reports: the reports built by requests that await the database
    searchCache,        \* server index: const searchCache = new Map()
    dashboardSessions,  \* server index: const dashboardSessions = new Map()
    cached,     \* database.js: global.mongoose = { conn, promise }
    attempts,   \* database.js: the mongoose.connect calls made so far, with their state
    waiters     \* database.js: the connectDB calls suspended at "await cached.promise"

\* The state of the server outside the report store
aside == <<searchCache, dashboardSessions, cached, attempts, waiters>>

vars == <<reports, nextId, now, call, ret, inflight, aside>>

--------------------------------------------------------------------------
(* Optional values and JavaScript truthiness *)

None == <<>>

Some(v) == <<v>>

\* !x for an optional number: undefined, null and 0 are falsy
TruthyNum(x) == x # None /\ x[1] # 0

\* !s for a string (or undefined): undefined and '' are falsy
TruthyStr(s) == Len(s) > 0

--------------------------------------------------------------------------
(* Strings *)

UpperToLower ==
    ("K" :> "k") @@ ("N" :> "n") @@ ("G" :> "g") @@ ("D" :> "d") @@
    ("R" :> "r") @@ ("A" :> "a") @@ ("S" :> "s")

LowerChar(c) == IF c \in DOMAIN UpperToLower THEN UpperToLower[c] ELSE c

\* String.prototype.toLowerCase
ToLowerCase(s) == [i \in 1..Len(s) |-> LowerChar(s[i])]

IsSpace(c) == c = " "

IsDigit(c) == c \in {"0", "1", "2", "3", "4", "5", "6", "7", "8", "9"}

RECURSIVE TrimStart(_)
TrimStart(s) ==
    IF Len(s) > 0 /\ IsSpace(s[1]) THEN TrimStart(Tail(s)) ELSE s

RECURSIVE TrimEnd(_)
TrimEnd(s) ==
    IF Len(s) > 0 /\ IsSpace(s[Len(s)]) THEN TrimEnd(SubSeq(s, 1, Len(s) - 1)) ELSE s

\* String.prototype.trim
Trim(s) == TrimEnd(TrimStart(s))

\* String.prototype.includes: t occurs in s as a contiguous substring
\* (the empty string occurs in every string)
Includes(s, t) ==
    \E i \in 1..(Len(s) - Len(t) + 1) : SubSeq(s, i, i + Len(t) - 1) = t

\* Number of consecutive characters of s from position i on that satisfy the
\* class test (greedy quantifier of the regular expression)
RECURSIVE RunOfSpaces(_, _)
RunOfSpaces(s, i) ==
    IF i <= Len(s) /\ IsSpace(s[i]) THEN 1 + RunOfSpaces(s, i + 1) ELSE 0

RECURSIVE RunOfDigits(_, _)
RunOfDigits(s, i) ==
    IF i <= Len(s) /\ IsDigit(s[i]) THEN 1 + RunOfDigits(s, i + 1) ELSE 0

RoadCodePrefixes == { <<"k", "n">>, <<"k", "g">>, <<"d", "r">> }

\* Length of the match of /(kn|kg|dr)\s*\d+/i anchored at position i, 0 if none
CodeMatchLenAt(s, i) ==
    IF i + 1 <= Len(s) /\ ToLowerCase(SubSeq(s, i, i + 1)) \in RoadCodePrefixes
    THEN LET sp == RunOfSpaces(s, i + 2)
             dg == RunOfDigits(s, i + 2 + sp)
         IN  IF dg > 0 THEN 2 + sp + dg ELSE 0
    ELSE 0

\* s.match(/(kn|kg|dr)\s*\d+/i): None when there is no match, else <<m>> with m
\* the text of the leftmost match (element [0] of the match array)
MatchRoadCode(s) ==
    LET starts == { i \in 1..Len(s) : CodeMatchLenAt(s, i) > 0 }
    IN  IF starts = {} THEN None
        ELSE LET i == CHOOSE j \in starts : \A k \in starts : j <= k
             IN  Some(SubSeq(s, i, i + CodeMatchLenAt(s, i) - 1))

--------------------------------------------------------------------------
(* Dates *)

MinutesPerHour == 60

MinutesPerDay == 24 * MinutesPerHour

\* Date.prototype.getDay: 0 = Sunday .. 6 = Saturday; day 0 of the epoch is a Thursday
GetDay(t) == ((t \div MinutesPerDay) + 4) % 7

\* Date.prototype.getHours
GetHours(t) == (t % MinutesPerDay) \div MinutesPerHour

\* Date.prototype.getMinutes
GetMinutes(t) == t % MinutesPerHour

Abs(x) == IF x < 0 THEN -x ELSE x

--------------------------------------------------------------------------
(* Sequences *)

Range(s) == { s[i] : i \in 1..Len(s) }

--------------------------------------------------------------------------
(* Geometry *)

\* Square of the length in metres of 1e-4 degree of a great circle of the
\* sphere of radius R = 6371000 m, times 1000:  (R * pi / 180 * 1e-4)^2 = 123.643
MetreSqPerUnitSq == 123643

\* The Haversine distance of getReportsNearLocation for two points a few hundred
\* metres apart near the equator (the service area, Kigali, is at latitude -1.95,
\* where cos(lat) = 0.9994): distance^2 = R^2 * (dLat^2 + dLng^2) in radians.
\* The value is the squared distance in 1e-3 m^2.
DistanceSq(lat1, lng1, lat2, lng2) ==
    ((lat2 - lat1) * (lat2 - lat1) + (lng2 - lng1) * (lng2 - lng1)) * MetreSqPerUnitSq

\* distance <= maxDistanceMeters.  A unit is more than 11 m long, so two points
\* more than maxDistanceMeters / 11 units apart in latitude or in longitude are
\* farther apart than maxDistanceMeters; testing that first keeps the squares
\* within the range of the integers.
WithinDistance(lat1, lng1, lat2, lng2, maxDistanceMeters) ==
    /\ Abs(lat2 - lat1) * 11 <= maxDistanceMeters
    /\ Abs(lng2 - lng1) * 11 <= maxDistanceMeters
    /\ DistanceSq(lat1, lng1, lat2, lng2) <= maxDistanceMeters * maxDistanceMeters * 1000

--------------------------------------------------------------------------
(* The report store: server/data/roadReports.js *)

ReportTypes == { "light", "medium", "heavy", "blocked", "accident" }

\* getAllReports
GetAllReports == reports

\* getReportsForRoad that skips the reports without coordinates
GetReportsForRoad_Located(roadId) ==
    SelectSeq(reports, LAMBDA report :
        report.roadId = roadId /\ report.lat # None /\ report.lng # None)

\* getReportsForRoad(roadId)
GetReportsForRoad(roadId) ==
    SelectSeq(reports, LAMBDA report : report.roadId = roadId)

\* The filter callback of getReportsByStreetName, for a truthy streetName
StreetNameMatches(report, streetName) ==
    LET normalizedName == Trim(ToLowerCase(streetName))
        reportName     == Trim(ToLowerCase(report.roadName))
        reportCode     == MatchRoadCode(reportName)
        searchCode     == MatchRoadCode(normalizedName)
    IN  \/ reportName = normalizedName
        \/ Includes(reportName, normalizedName)
        \/ Includes(normalizedName, reportName)
        \/ reportCode # None /\ searchCode # None /\ reportCode[1] = searchCode[1]

\* getReportsByStreetName(streetName)
GetReportsByStreetName(streetName) ==
    IF ~TruthyStr(streetName) THEN <<>>
    ELSE SelectSeq(reports, LAMBDA report : StreetNameMatches(report, streetName))

\* The filter callback of getReportsNearLocation
IsNearLocation(report, lat, lng, maxDistanceMeters) ==
    IF ~TruthyNum(report.lat) \/ ~TruthyNum(report.lng) THEN FALSE
    ELSE WithinDistance(report.lat[1], report.lng[1], lat, lng, maxDistanceMeters)

\* getReportsNearLocation(lat, lng, maxDistanceMeters)
GetReportsNearLocation(lat, lng, maxDistanceMeters) ==
    SelectSeq(reports, LAMBDA report : IsNearLocation(report, lat, lng, maxDistanceMeters))

\* The value of the ++ of a property that holds no number
NaN == "NaN"

\* Names that the summary object literal inherits from Object.prototype as
\* writable data properties: summary[name] is a function, not undefined, and
\* summary[name]++ stores NaN under the name as an own property
InheritedDataProperties ==
    { "constructor", "toString", "valueOf", "hasOwnProperty" }

\* getReportSummary(reports): a report whose type is neither one of the five
\* keys nor an inherited name finds summary[type] undefined and is skipped
GetReportSummary(rs) ==
    LET inherited == { rs[i].reportType : i \in 1..Len(rs) } \cap InheritedDataProperties
    IN  [type \in ReportTypes \cup inherited |->
            IF type \in ReportTypes
            THEN Len(SelectSeq(rs, LAMBDA report : report.reportType = type))
            ELSE NaN]

\* InTimeWindow that leaves out a report exactly toleranceMinutes away
InTimeWindow_Exclusive(report, dayOfWeek, timeWindow, toleranceMinutes) ==
    LET reportDay           == GetDay(report.timestamp)
        reportTimeInMinutes == GetHours(report.timestamp) * MinutesPerHour
                               + GetMinutes(report.timestamp)
        targetTimeInMinutes == timeWindow * MinutesPerHour
        timeDiff            == Abs(reportTimeInMinutes - targetTimeInMinutes)
    IN  reportDay = dayOfWeek /\ ~(timeDiff >= toleranceMinutes)

\* The day and time-window test shared by getHistoricalReports and
\* getHistoricalReportsByStreetName (no wrap-around at midnight)
InTimeWindow(report, dayOfWeek, timeWindow, toleranceMinutes) ==
    LET reportDay           == GetDay(report.timestamp)
        reportTimeInMinutes == GetHours(report.timestamp) * MinutesPerHour
                               + GetMinutes(report.timestamp)
        targetTimeInMinutes == timeWindow * MinutesPerHour
        timeDiff            == Abs(reportTimeInMinutes - targetTimeInMinutes)
    IN  reportDay = dayOfWeek /\ ~(timeDiff > toleranceMinutes)

\* The "Match road" part of the filter callback of getHistoricalReports
HistoricalRoadMatches(report, roadId) ==
    IF TruthyStr(roadId) /\ report.roadId # roadId
    THEN LET reportName == ToLowerCase(report.roadName)
             searchName == ToLowerCase(roadId)
         IN  ~(~Includes(reportName, searchName) /\ ~Includes(searchName, reportName))
    ELSE TRUE

DefaultToleranceMinutes == 30

\* getHistoricalReports(roadId, dayOfWeek, timeWindow, toleranceMinutes)
GetHistoricalReports(roadId, dayOfWeek, timeWindow, toleranceMinutes) ==
    SelectSeq(reports, LAMBDA report :
        /\ InTimeWindow(report, dayOfWeek, timeWindow, toleranceMinutes)
        /\ HistoricalRoadMatches(report, roadId))

\* getHistoricalReportsByStreetName(streetName, dayOfWeek, timeWindow, toleranceMinutes)
GetHistoricalReportsByStreetName(streetName, dayOfWeek, timeWindow, toleranceMinutes) ==
    SelectSeq(reports, LAMBDA report :
        /\ InTimeWindow(report, dayOfWeek, timeWindow, toleranceMinutes)
        /\ TruthyStr(streetName)
        /\ StreetNameMatches(report, streetName))

\* The reports getHistoricalPattern works on: by roadId first, then by street name
HistoricalSelection(roadId, streetName, dayOfWeek, timeWindow) ==
    LET byRoad == IF TruthyStr(roadId)
                  THEN GetHistoricalReports(roadId, dayOfWeek, timeWindow,
                                            DefaultToleranceMinutes)
                  ELSE <<>>
    IN  IF Len(byRoad) = 0 /\ TruthyStr(streetName)
        THEN GetHistoricalReportsByStreetName(streetName, dayOfWeek, timeWindow,
                                              DefaultToleranceMinutes)
        ELSE byRoad

\* const types = ['blocked', 'heavy', 'medium', 'light', 'accident']
PatternTypes == << "blocked", "heavy", "medium", "light", "accident" >>

\* Math.max(...timestamps)
MaxTimestamp(rs) ==
    CHOOSE t \in { r.timestamp : r \in Range(rs) } :
        \A r \in Range(rs) : r.timestamp <= t

\* PatternOf with the most numerous type (the first of them in PatternTypes)
PatternOf_MostCommon(historicalReports) ==
    LET summary == GetReportSummary(historicalReports)
        hits    == { i \in 1..Len(PatternTypes) :
                       /\ summary[PatternTypes[i]] > 0
                       /\ \A k \in 1..Len(PatternTypes) :
                             summary[PatternTypes[k]] <= summary[PatternTypes[i]] }
    IN  IF hits = {} THEN None
        ELSE LET i    == CHOOSE j \in hits : \A k \in hits : j <= k
                 type == PatternTypes[i]
             IN  Some([ type           |-> type,
                        count          |-> summary[type],
                        totalReports   |-> Len(historicalReports),
                        confidence     |-> << summary[type], Len(historicalReports) >>,
                        lastReportDate |-> MaxTimestamp(historicalReports) ])

\* PatternOf with lastReportDate taken from the reports of the returned type only
PatternOf_LastOfType(historicalReports) ==
    LET summary == GetReportSummary(historicalReports)
        hits    == { i \in 1..Len(PatternTypes) : summary[PatternTypes[i]] > 0 }
    IN  IF hits = {} THEN None
        ELSE LET i    == CHOOSE j \in hits : \A k \in hits : j <= k
                 type == PatternTypes[i]
             IN  Some([ type           |-> type,
                        count          |-> summary[type],
                        totalReports   |-> Len(historicalReports),
                        confidence     |-> << summary[type], Len(historicalReports) >>,
                        lastReportDate |-> MaxTimestamp(SelectSeq(historicalReports,
                                               LAMBDA r : r.reportType = type)) ])

\* The for loop of getHistoricalPattern: the pattern of the first type of
\* PatternTypes with a positive count, None (null) when the loop ends without one.
\* confidence = count / totalReports is kept as that pair of numbers.
PatternOf(historicalReports) ==
    LET summary == GetReportSummary(historicalReports)
        hits    == { i \in 1..Len(PatternTypes) : summary[PatternTypes[i]] > 0 }
    IN  IF hits = {} THEN None
        ELSE LET i    == CHOOSE j \in hits : \A k \in hits : j <= k
                 type == PatternTypes[i]
             IN  Some([ type           |-> type,
                        count          |-> summary[type],
                        totalReports   |-> Len(historicalReports),
                        confidence     |-> << summary[type], Len(historicalReports) >>,
                        lastReportDate |-> MaxTimestamp(historicalReports) ])

\* getHistoricalPattern without the fallback to the street name
GetHistoricalPattern_RoadIdOnly(roadId, streetName, dayOfWeek, timeWindow) ==
    LET historicalReports ==
            IF TruthyStr(roadId)
            THEN GetHistoricalReports(roadId, dayOfWeek, timeWindow,
                                      DefaultToleranceMinutes)
            ELSE <<>>
    IN  IF Len(historicalReports) = 0 THEN None
        ELSE PatternOf(historicalReports)

\* getHistoricalPattern(roadId, streetName, dayOfWeek, timeWindow)
GetHistoricalPattern(roadId, streetName, dayOfWeek, timeWindow) ==
    LET historicalReports == HistoricalSelection(roadId, streetName, dayOfWeek, timeWindow)
    IN  IF Len(historicalReports) = 0 THEN None
        ELSE PatternOf(historicalReports)

\* NewReport that leaves the id to be set later
NewReport_IdLater(report, id, time) ==
    [ id         |-> report.id,
      roadId     |-> report.roadId,
      roadName   |-> report.roadName,
      reportType |-> report.reportType,
      lat        |-> report.lat,
      lng        |-> report.lng,
      timestamp  |-> IF report.timestamp # None THEN report.timestamp[1] ELSE time ]

\* The record addReport builds: { id: nextId++, ...report, timestamp: ... }.
\* An id of the argument overrides the assigned one; a missing timestamp is the
\* time of the call.  toISOString and new Date(...) are exact inverses at the
\* clock's resolution, so a timestamp is kept as its number of minutes.
NewReport(report, id, time) ==
    [ id         |-> IF report.id # None THEN report.id ELSE Some(id),
      roadId     |-> report.roadId,
      roadName   |-> report.roadName,
      reportType |-> report.reportType,
      lat        |-> report.lat,
      lng        |-> report.lng,
      timestamp  |-> IF report.timestamp # None THEN report.timestamp[1] ELSE time ]

\* Math.max(...reports.map(r => (r.id || 0))), for a list that is not empty
MaxId(rs) ==
    LET ids == { IF TruthyNum(rs[i].id) THEN rs[i].id[1] ELSE 0 : i \in 1..Len(rs) }
    IN  CHOOSE m \in ids : \A n \in ids : n <= m

\* loadReports that takes the next id from the file
LoadReports_StoredNextId(file) ==
    IF file = None THEN [ reports |-> <<>>, nextId |-> 1 ]
    ELSE [ reports |-> file[1].reports,
           nextId  |-> IF TruthyNum(file[1].nextId) THEN file[1].nextId[1] ELSE 1 ]

\* loadReports(): the reports and the next id after the module is loaded.  The
\* file is None when reports.json is missing, empty or unreadable, and otherwise
\* holds the parsed reports and the parsed nextId.
LoadReports(file) ==
    IF file = None THEN [ reports |-> <<>>, nextId |-> 1 ]
    ELSE LET parsed == file[1]
         IN  IF Len(parsed.reports) > 0
             THEN [ reports |-> parsed.reports, nextId |-> MaxId(parsed.reports) + 1 ]
             ELSE [ reports |-> <<>>,
                    nextId  |-> IF TruthyNum(parsed.nextId) THEN parsed.nextId[1] ELSE 1 ]

\* getFlaggedRoads(): one entry per roadId, in the order in which the roadIds
\* first occur (the keys of roadMap; the roadIds here are no array indexes and
\* no inherited names), with the road name of the first report of the road
GetFlaggedRoads ==
    LET firsts == SelectSeq([ i \in 1..Len(reports) |-> i ],
                            LAMBDA i : \A j \in 1..(i - 1) :
                                          reports[j].roadId # reports[i].roadId)
    IN  [ k \in 1..Len(firsts) |->
            [ roadId   |-> reports[firsts[k]].roadId,
              roadName |-> reports[firsts[k]].roadName,
              reports  |-> SelectSeq(reports, LAMBDA report :
                                         report.roadId = reports[firsts[k]].roadId) ] ]

\* The data saveReports() writes to reports.json
SaveData(time) ==
    [ reports |-> reports, nextId |-> nextId, lastUpdated |-> time ]

--------------------------------------------------------------------------
(* Route annotation: POST /api/routes/alternatives *)

MatchRadiusMeters == 200

RecentMinutes == 10

MinutesPerWeek == 7 * MinutesPerDay

\* const key = r.id || JSON.stringify(r)
ReportKey(r) == IF TruthyNum(r.id) THEN << "id", r.id[1] >> ELSE << "json", r >>

\* reportMap after the loop over rs: the first report of every key, in order
RECURSIVE DedupByKey(_, _)
DedupByKey(rs, acc) ==
    IF rs = <<>> THEN acc
    ELSE IF \E a \in Range(acc) : ReportKey(a) = ReportKey(Head(rs))
         THEN DedupByKey(Tail(rs), acc)
         ELSE DedupByKey(Tail(rs), Append(acc, Head(rs)))

\* The nearby reports of every point of the geometry, one point after the other
RECURSIVE NearbyOfPoints(_)
NearbyOfPoints(geometry) ==
    IF geometry = <<>> THEN <<>>
    ELSE GetReportsNearLocation(Head(geometry).lat, Head(geometry).lng, MatchRadiusMeters)
         \o NearbyOfPoints(Tail(geometry))

\* PRIORITY 1: reports within 200 m of any point of the segment
CoordinateMatches(segment) ==
    IF Len(segment.geometry) > 0
    THEN DedupByKey(NearbyOfPoints(segment.geometry), <<>>)
    ELSE <<>>

\* MatchReports with the street-name tier tried before the roadId tier
MatchReports_NameFirst(segment) ==
    LET tier1 == CoordinateMatches(segment)
        tier2 == IF Len(tier1) = 0 /\ TruthyStr(segment.roadName)
                 THEN GetReportsByStreetName(segment.roadName)
                 ELSE tier1
        tier3 == IF Len(tier2) = 0 THEN GetReportsForRoad(segment.roadId) ELSE tier2
    IN  tier3

\* The three tiers: coordinates, then roadId, then street name
MatchReports(segment) ==
    LET tier1 == CoordinateMatches(segment)
        tier2 == IF Len(tier1) = 0 THEN GetReportsForRoad(segment.roadId) ELSE tier1
        tier3 == IF Len(tier2) = 0 /\ TruthyStr(segment.roadName)
                 THEN GetReportsByStreetName(segment.roadName)
                 ELSE tier2
    IN  tier3

\* IsRecent with the bound included: reportTime >= tenMinutesAgo
IsRecent_Inclusive(r, time) == r.timestamp >= time - RecentMinutes

\* reportTime > tenMinutesAgo
IsRecent(r, time) == r.timestamp > time - RecentMinutes

\* The recentReports filter of a segment, evaluated at time "time"
RecentReports(matched, time) == SelectSeq(matched, LAMBDA r : IsRecent(r, time))

\* SegmentPattern without the test for recent reports
SegmentPattern_Always(segment, recentReports, time) ==
    GetHistoricalPattern(segment.roadId, segment.roadName, GetDay(time), GetHours(time))

\* SegmentPattern with the pattern taken from the reports matched to the segment
SegmentPattern_OfMatched(segment, recentReports, time) ==
    IF Len(recentReports) = 0 /\ Len(MatchReports(segment)) > 0
    THEN PatternOf(MatchReports(segment))
    ELSE None

\* historicalPattern: looked up only when there is no recent report
SegmentPattern(segment, recentReports, time) ==
    IF Len(recentReports) = 0
    THEN GetHistoricalPattern(segment.roadId, segment.roadName,
                              GetDay(time), GetHours(time))
    ELSE None

\* historicalMessage: the weekday, type, count and number of weeks of the sentence
\* "No live reports. Last <day> at this time: <type> traffic (<count> reports,
\* <weeksAgo> weeks ago)", None (null) when there is no pattern
SegmentMessage(historicalPattern, time) ==
    IF historicalPattern # None
    THEN Some([ day      |-> GetDay(time),
                type     |-> historicalPattern[1].type,
                count    |-> historicalPattern[1].count,
                weeksAgo |-> (time - historicalPattern[1].lastReportDate)
                             \div MinutesPerWeek ])
    ELSE None

\* The object returned for one segment: { ...segment, reports, recentReports, ... }
SegmentObject(segment, matched, recentReports, historicalPattern, time) ==
    [ segment             |-> segment,
      reports             |-> matched,
      recentReports       |-> recentReports,
      reportCount         |-> Len(matched),
      recentReportCount   |-> Len(recentReports),
      reportSummary       |-> GetReportSummary(matched),
      recentReportSummary |-> GetReportSummary(recentReports),
      historicalPattern   |-> historicalPattern,
      historicalMessage   |-> SegmentMessage(historicalPattern, time),
      hasLiveData         |-> Len(recentReports) > 0 ]

\* The callback of route.roadSegments.map, evaluated at time "time"
AnnotateSegment(segment, time) ==
    LET matched       == MatchReports(segment)
        recentReports == RecentReports(matched, time)
    IN  SegmentObject(segment, matched, recentReports,
                      SegmentPattern(segment, recentReports, time), time)

\* SegmentsWith that adds up the reports of the type over the segments
SegmentsWith_Reports(routeReports, type) ==
    Cardinality({ ik \in (1..Len(routeReports)) \X (1..Len(reports)) :
                    /\ ik[2] <= Len(routeReports[ik[1]].reports)
                    /\ routeReports[ik[1]].reports[ik[2]].reportType = type })

\* Number of annotated segments with at least one report of the type
SegmentsWith(routeReports, type) ==
    Len(SelectSeq(routeReports, LAMBDA seg : seg.reportSummary[type] > 0))

\* RouteObject whose hasFlaggedRoads looks at the live reports only
RouteObject_LiveOnly(route, routeReports) ==
    [ route           |-> route,
      roadSegments    |-> routeReports,
      hasFlaggedRoads |-> \E i \in 1..Len(routeReports) : routeReports[i].hasLiveData,
      trafficSummary  |-> [ heavy   |-> SegmentsWith(routeReports, "heavy"),
                            medium  |-> SegmentsWith(routeReports, "medium"),
                            light   |-> SegmentsWith(routeReports, "light"),
                            blocked |-> SegmentsWith(routeReports, "blocked") ] ]

\* The object returned for one route: { ...route, roadSegments, hasFlaggedRoads, ... }
RouteObject(route, routeReports) ==
    [ route           |-> route,
      roadSegments    |-> routeReports,
      hasFlaggedRoads |-> \E i \in 1..Len(routeReports) :
                              Len(routeReports[i].reports) > 0,
      trafficSummary  |-> [ heavy   |-> SegmentsWith(routeReports, "heavy"),
                            medium  |-> SegmentsWith(routeReports, "medium"),
                            light   |-> SegmentsWith(routeReports, "light"),
                            blocked |-> SegmentsWith(routeReports, "blocked") ] ]

\* The callback of routes.map
AnnotateRoute(route, time) ==
    RouteObject(route, [ i \in 1..Len(route.roadSegments) |->
                            AnnotateSegment(route.roadSegments[i], time) ])

\* routes.map(route => ...)
RoutesWithReports(routes, time) ==
    [ i \in 1..Len(routes) |-> AnnotateRoute(routes[i], time) ]

--------------------------------------------------------------------------
(* Operations.  Every operation reads the clock, which may have advanced since  *)
(* the operation before it.  The file reports.json is read once, by            *)
(* loadReports when the module is loaded, and written by saveReports; the       *)
(* analytics log of the route handler is not read by any operation below and is *)
(* left out.                                                                    *)

Idle == [ op |-> "none" ]

\* The maps and the connection cache as the modules create them
InitAside ==
    /\ searchCache = <<>>
    /\ dashboardSessions = <<>>
    /\ cached = [ conn |-> None, promise |-> None ]
    /\ attempts = <<>>
    /\ waiters = <<>>

Init ==
    /\ reports = <<>>
    /\ nextId = 1
    /\ call = Idle
    /\ ret = <<>>
    /\ inflight = <<>>
    /\ InitAside

\* addReport that puts the new report first (unshift instead of push)
AddReport_Unshift(pool, times, maxReports) ==
    /\ Len(reports) < maxReports
    /\ \E report \in pool, t \in times :
        /\ t >= now
        /\ now' = t
        /\ reports' = << NewReport(report, nextId, t) >> \o reports
        /\ nextId' = nextId + 1
        /\ call' = [ op |-> "addReport", report |-> report, now |-> t ]
        /\ ret' = NewReport(report, nextId, t)
        /\ UNCHANGED <<inflight, aside>>

\* roadReports.addReport(report)
AddReport(pool, times, maxReports) ==
    /\ Len(reports) < maxReports
    /\ \E report \in pool, t \in times :
        /\ t >= now
        /\ now' = t
        /\ reports' = Append(reports, NewReport(report, nextId, t))
        /\ nextId' = nextId + 1
        /\ call' = [ op |-> "addReport", report |-> report, now |-> t ]
        /\ ret' = NewReport(report, nextId, t)
        /\ UNCHANGED <<inflight, aside>>

\* Alternatives that drops the reports that are no longer live from the store
Alternatives_Pruning(routeLists, times) ==
    \E routes \in routeLists, t \in times :
        /\ t >= now
        /\ now' = t
        /\ call' = [ op |-> "alternatives", routes |-> routes, now |-> t ]
        /\ ret' = RoutesWithReports(routes, t)
        /\ reports' = SelectSeq(reports, LAMBDA r : IsRecent(r, t))
        /\ UNCHANGED <<nextId, inflight, aside>>

\* POST /api/routes/alternatives, from the routes the route service generated
Alternatives(routeLists, times) ==
    \E routes \in routeLists, t \in times :
        /\ t >= now
        /\ now' = t
        /\ call' = [ op |-> "alternatives", routes |-> routes, now |-> t ]
        /\ ret' = RoutesWithReports(routes, t)
        /\ UNCHANGED <<reports, nextId, inflight, aside>>

\* roadReports.getReportsNearLocation(lat, lng, maxDistanceMeters)
NearLocation(points, radii) ==
    \E p \in points, r \in radii :
        /\ call' = [ op |-> "getReportsNearLocation", lat |-> p.lat, lng |-> p.lng,
                     maxDistanceMeters |-> r ]
        /\ ret' = GetReportsNearLocation(p.lat, p.lng, r)
        /\ UNCHANGED <<reports, nextId, now, inflight, aside>>

\* GET /api/reports/road/:roadId: getReportsForRoad and getReportSummary
RoadReports(roadIds) ==
    \E roadId \in roadIds :
        /\ call' = [ op |-> "getReportsForRoad", roadId |-> roadId ]
        /\ ret' = [ reports |-> GetReportsForRoad(roadId),
                    summary |-> GetReportSummary(GetReportsForRoad(roadId)) ]
        /\ UNCHANGED <<reports, nextId, now, inflight, aside>>

\* roadReports.getReportsByStreetName(streetName)
ByStreetName(names) ==
    \E streetName \in names :
        /\ call' = [ op |-> "getReportsByStreetName", streetName |-> streetName ]
        /\ ret' = GetReportsByStreetName(streetName)
        /\ UNCHANGED <<reports, nextId, now, inflight, aside>>

\* roadReports.getHistoricalPattern(roadId, streetName, dayOfWeek, timeWindow)
HistoricalPattern(roadIds, names, days, hours) ==
    \E roadId \in roadIds, streetName \in names, dayOfWeek \in days, timeWindow \in hours :
        /\ call' = [ op |-> "getHistoricalPattern", roadId |-> roadId,
                     streetName |-> streetName, dayOfWeek |-> dayOfWeek,
                     timeWindow |-> timeWindow ]
        /\ ret' = GetHistoricalPattern(roadId, streetName, dayOfWeek, timeWindow)
        /\ UNCHANGED <<reports, nextId, now, inflight, aside>>

\* roadReports.getAllReports()
AllReports ==
    /\ call' = [ op |-> "getAllReports" ]
    /\ ret' = GetAllReports
    /\ UNCHANGED <<reports, nextId, now, inflight, aside>>

\* roadReports.getFlaggedRoads()
FlaggedRoads ==
    /\ call' = [ op |-> "getFlaggedRoads" ]
    /\ ret' = GetFlaggedRoads
    /\ UNCHANGED <<reports, nextId, now, inflight, aside>>

\* The periodic save: setInterval(() => saveReports(), 30000)
PeriodicSave(times) ==
    \E t \in times :
        /\ t >= now
        /\ now' = t
        /\ call' = [ op |-> "saveReports", now |-> t ]
        /\ ret' = SaveData(t)
        /\ UNCHANGED <<reports, nextId, inflight, aside>>

\* lat || null, lng || null
OrNull(x) == IF TruthyNum(x) THEN x ELSE None

\* reportData of POST /api/reports, for a body with a roadId and a reportType
\* (None when the body has none): the road name
\* defaults to 'Road <roadId>', a coordinate of 0 is stored as null, and the
\* timestamp is the time at which the request arrived
ReportData(body, time) ==
    [ id         |-> None,
      roadId     |-> body.roadId,
      roadName   |-> IF TruthyStr(body.roadName) THEN body.roadName
                     ELSE << "R", "o", "a", "d", " " >> \o body.roadId,
      reportType |-> body.reportType[1],
      lat        |-> OrNull(body.lat),
      lng        |-> OrNull(body.lng),
      timestamp  |-> Some(time) ]

\* POST /api/reports up to its first await: a body without reportType or without
\* roadId is refused with status 400; otherwise the request builds reportData and
\* waits for the database
PostReportBegin(bodies, times, maxInflight) ==
    \E body \in bodies, t \in times :
        /\ t >= now
        /\ now' = t
        /\ call' = [ op |-> "postReport", body |-> body, now |-> t ]
        /\ IF body.reportType = None \/ ~TruthyStr(body.roadId)
           THEN /\ ret' = [ status |-> 400 ]
                /\ UNCHANGED <<inflight, aside>>
           ELSE /\ Len(inflight) < maxInflight
                /\ ret' = [ status |-> 0 ]
                /\ inflight' = Append(inflight, ReportData(body, t))
        /\ UNCHANGED <<reports, nextId, aside>>

\* savedTo: dbError ? 'file' : fileError ? 'database' : 'both'
SavedTo(dbError, fileError) ==
    IF dbError THEN "file" ELSE IF fileError THEN "database" ELSE "both"

\* Whether roadReports.addReport throws when fs.writeFileSync does: it does
\* not, saveReports catches the error of the write and only logs it
AddReportThrows(fileWritten) == FALSE

\* POST /api/reports after the database answered, with success or not, for any
\* one of the waiting requests: roadReports.addReport runs without interruption,
\* its write of reports.json succeeding or not, and the response carries the
\* saved report and the stores the handler saw no error from; with an error
\* from both the answer is 500
PostReportSave(times, maxReports) ==
    /\ Len(reports) < maxReports
    /\ \E n \in 1..Len(inflight), t \in times, dbSaved \in BOOLEAN, fileWritten \in BOOLEAN :
        /\ t >= now
        /\ now' = t
        /\ reports' = Append(reports, NewReport(inflight[n], nextId, t))
        /\ nextId' = nextId + 1
        /\ inflight' = SubSeq(inflight, 1, n - 1) \o SubSeq(inflight, n + 1, Len(inflight))
        /\ call' = [ op |-> "postReportSaved", report |-> inflight[n], now |-> t,
                     dbSaved |-> dbSaved, fileWritten |-> fileWritten ]
        /\ ret' = IF ~dbSaved /\ AddReportThrows(fileWritten)
                  THEN [ status |-> 500 ]
                  ELSE [ status  |-> 200,
                         report  |-> IF dbSaved THEN inflight[n]
                                     ELSE NewReport(inflight[n], nextId, t),
                         savedTo |-> SavedTo(~dbSaved, AddReportThrows(fileWritten)) ]
        /\ UNCHANGED aside

--------------------------------------------------------------------------
(* Inputs *)

\* Road identifiers
Road1 == << "r", "1" >>

Road2 == << "r", "2" >>

Road3 == << "r", "3" >>

\* Street names
NameKN5Ave == << "K", "N", " ", "5", " ", "A", "v", "e" >>

NameKN5Road == << "K", "N", "5", " ", "R", "o", "a", "d" >>

NameKn5 == << "k", "n", " ", "5" >>

NameKG7St == << " ", "K", "G", " ", "7", " ", "S", "t" >>

NameRoadR1 == << "R", "o", "a", "d", " ", "r", "1" >>

\* Points, in 1e-4 degree: P and Q lie 111 m apart on a street of Kigali, Z on the equator
PointP == [ lat |-> -19500, lng |-> 300500 ]

PointQ == [ lat |-> -19500, lng |-> 300510 ]

PointZ == [ lat |-> 0, lng |-> 300500 ]

\* Monday 1970-01-05, 08:00
MondayEight == 4 * MinutesPerDay + 8 * MinutesPerHour

\* All sequences over S of length 1..n
SeqsUpTo(S, n) == UNION { [1..k -> S] : k \in 1..n }

\* A report as handed to addReport, without id and without timestamp
ReportInput(roadId, roadName, reportType, lat, lng) ==
    [ id |-> None, roadId |-> roadId, roadName |-> roadName, reportType |-> reportType,
      lat |-> lat, lng |-> lng, timestamp |-> None ]

Segment(roadId, roadName, geometry) ==
    [ roadId |-> roadId, roadName |-> roadName, geometry |-> geometry ]

Route(roadSegments) == [ roadSegments |-> roadSegments ]

--------------------------------------------------------------------------
(* Specification SpecMatch: which reports a segment is matched with *)

MaxMatchReports == 3

MaxSegments == 1

\* Positions of a report: none, 16 m from P (and 100 m from Q), 200.1 m from P,
\* and on the equator at Z
MatchPositions ==
    { << None, None >>,
      << Some(-19501), Some(300501) >>,
      << Some(-19518), Some(300500) >>,
      << Some(0), Some(300500) >> }

\* The segments below have the roadId of the first and the name of the second
MatchRoads == { << Road1, NameKG7St >>, << Road2, NameKN5Ave >> }

MatchPool ==
    { ReportInput(rd[1], rd[2], "heavy", pos[1], pos[2]) :
        rd \in MatchRoads, pos \in MatchPositions }

MatchSegments ==
    { Segment(roadId, roadName, geometry) :
        roadId \in { Road1, Road3 },
        roadName \in { NameKn5, None },
        geometry \in { <<>>, << PointP >>, << PointQ, PointP >>, << PointZ >> } }

MatchRouteLists ==
    { << Route(segs) >> : segs \in SeqsUpTo(MatchSegments, MaxSegments) }

MatchTimes == { MondayEight }

InitMatch == Init /\ now = MondayEight

NextMatch ==
    \/ AddReport(MatchPool, MatchTimes, MaxMatchReports)
    \/ Alternatives(MatchRouteLists, MatchTimes)

SpecMatch == InitMatch /\ [][NextMatch]_vars

\* The annotated segments of the response of the last POST /api/routes/alternatives
AnnotatedSegments ==
    IF call.op = "alternatives"
    THEN UNION { Range(ret[i].roadSegments) : i \in 1..Len(ret) }
    ELSE {}

\* The stored reports that carry a latitude and a longitude and lie within
\* 200 m of some point of the geometry
ReportsWithin200m(geometry) ==
    { r \in Range(reports) :
        /\ r.lat # None
        /\ r.lng # None
        /\ \E k \in 1..Len(geometry) :
              WithinDistance(r.lat[1], r.lng[1], geometry[k].lat, geometry[k].lng, 200) }

\* C1 (tier strictness): when a stored report lies within 200 m of a point of the
\* segment's geometry, the matched reports of the segment are exactly the reports
\* within 200 m of its geometry: nothing matched by roadId or by name only.
C1_TierStrictness ==
    \A a \in AnnotatedSegments :
        ReportsWithin200m(a.segment.geometry) # {}
            => Range(a.reports) = ReportsWithin200m(a.segment.geometry)

\* The same statement for the reports the proximity lookup can see (both
\* coordinates non-zero); it holds, so that C1 fails by the zero test of
\* getReportsNearLocation alone.
TierStrictnessOffAxes ==
    \A a \in AnnotatedSegments :
        LET near == { r \in ReportsWithin200m(a.segment.geometry) :
                        r.lat[1] # 0 /\ r.lng[1] # 0 }
        IN  near # {} => Range(a.reports) = near

\* The stored reports whose roadId is that of the segment
ReportsOfRoadId(roadId) == { r \in Range(reports) : r.roadId = roadId }

\* C2 (fallback order): for a segment without geometry, the matched reports are
\* the reports with the segment's roadId when there is one, and otherwise exactly
\* the result of the street-name lookup on the segment's roadName.
C2_FallbackOrder ==
    \A a \in AnnotatedSegments :
        Len(a.segment.geometry) = 0 =>
            IF ReportsOfRoadId(a.segment.roadId) # {}
            THEN /\ Range(a.reports) = ReportsOfRoadId(a.segment.roadId)
                 /\ Len(a.reports) = Cardinality(ReportsOfRoadId(a.segment.roadId))
            ELSE a.reports = GetReportsByStreetName(a.segment.roadName)

\* C2 witness: a segment without geometry and without a report of its roadId got
\* reports through its name, while another report is stored that does not match
\* the name.
C2_Witness ==
    \E a \in AnnotatedSegments :
        /\ Len(a.segment.geometry) = 0
        /\ ReportsOfRoadId(a.segment.roadId) = {}
        /\ Len(a.reports) > 0
        /\ Len(a.reports) < Len(reports)

--------------------------------------------------------------------------
(* Specification SpecAnnotate: live reports and the historical pattern of a   *)
(* segment.  Reports are stamped with the time of the call.                   *)

MaxAnnotateReports == 3

\* Monday of week 0 at 08:05 and 08:35; Monday of week 1 at 08:35, 08:45, 08:50.
\* The window of hour 8 is 07:30 .. 08:30.
AnnotateTimes ==
    { MondayEight + 5,
      MondayEight + 35,
      MondayEight + MinutesPerWeek + 35,
      MondayEight + MinutesPerWeek + 45,
      MondayEight + MinutesPerWeek + 50 }

AnnotatePool ==
    { ReportInput(Road1, NameKN5Ave, "medium", None, None),
      ReportInput(Road1, NameKN5Ave, "heavy", None, None),
      ReportInput(Road2, None, "medium", None, None) }

AnnotateSegments ==
    { Segment(Road1, NameKn5, <<>>),
      Segment(Road1, None, <<>>),
      Segment(Road3, NameKn5, <<>>) }

AnnotateRouteLists ==
    { << Route(segs) >> : segs \in SeqsUpTo(AnnotateSegments, MaxSegments) }

InitAnnotate == Init /\ now \in AnnotateTimes

NextAnnotate ==
    \/ AddReport(AnnotatePool, AnnotateTimes, MaxAnnotateReports)
    \/ Alternatives(AnnotateRouteLists, AnnotateTimes)

SpecAnnotate == InitAnnotate /\ [][NextAnnotate]_vars

\* Age of a report, in minutes, when the last request was handled
Age(r) == call.now - r.timestamp

\* C3 as claimed (recency partition): recentReports is a part of the matched
\* reports, and a matched report is recent exactly when its age is at most 10
\* minutes (600 s), a report aged exactly 10 minutes included.
C3_RecencyInclusive ==
    \A a \in AnnotatedSegments :
        /\ Range(a.recentReports) \subseteq Range(a.reports)
        /\ \A r \in Range(a.reports) :
              r \in Range(a.recentReports) <=> Age(r) <= RecentMinutes

\* C3 as amended: a matched report is recent exactly when its age is below 10
\* minutes; every matched report that is not recent is at least 10 minutes old.
C3_RecencyStrict ==
    \A a \in AnnotatedSegments :
        /\ Range(a.recentReports) \subseteq Range(a.reports)
        /\ \A r \in Range(a.reports) :
              r \in Range(a.recentReports) <=> Age(r) < RecentMinutes

\* C3 witness: a segment matched with a recent report and with a report aged
\* exactly 10 minutes, which is not recent.
C3_Witness ==
    \E a \in AnnotatedSegments :
        /\ Len(a.recentReports) > 0
        /\ \E r \in Range(a.reports) :
              Age(r) = RecentMinutes /\ r \notin Range(a.recentReports)

\* C4 (live data suppresses history): a segment has a historical pattern or a
\* historical message only when it has no recent report, and hasLiveData says
\* whether it has a recent report.
C4_LiveSuppressesHistory ==
    \A a \in AnnotatedSegments :
        /\ a.historicalPattern # None => Len(a.recentReports) = 0
        /\ a.historicalMessage # None => Len(a.recentReports) = 0
        /\ a.hasLiveData <=> Len(a.recentReports) > 0
        /\ ~(a.hasLiveData /\ a.historicalPattern # None)

\* C4 witness: a segment with live data whose road has reports in the window of
\* the hour, so that a pattern exists and is withheld.
C4_Witness ==
    \E a \in AnnotatedSegments :
        /\ a.hasLiveData
        /\ a.historicalPattern = None
        /\ \E r \in Range(reports) :
              /\ r \notin Range(a.recentReports)
              /\ r.roadId = a.segment.roadId
              /\ r.reportType \in ReportTypes
              /\ InTimeWindow(r, GetDay(call.now), GetHours(call.now),
                              DefaultToleranceMinutes)

\* The reports of the segment's road in the window of the current weekday and
\* hour (at most 30 minutes from the full hour), by the store's rule for a road:
\* the reports with the segment's roadId or with a name that contains or is
\* contained in it, and, when there is none, the reports matching its street name
RoadReportsInWindow(segment) ==
    LET InWindow(r) ==
            /\ GetDay(r.timestamp) = GetDay(call.now)
            /\ Abs((r.timestamp % MinutesPerDay) - GetHours(call.now) * 60) <= 30
        OnRoad(r) ==
            \/ r.roadId = segment.roadId
            \/ Includes(ToLowerCase(r.roadName), ToLowerCase(segment.roadId))
            \/ Includes(ToLowerCase(segment.roadId), ToLowerCase(r.roadName))
        byRoad == SelectSeq(reports, LAMBDA r : InWindow(r) /\ OnRoad(r))
        byName == SelectSeq(reports, LAMBDA r :
                      InWindow(r) /\ StreetNameMatches(r, segment.roadName))
    IN  IF segment.roadId # None /\ byRoad # <<>> THEN byRoad
        ELSE IF segment.roadName # None THEN byName
        ELSE <<>>

\* Midnight of the day of the last request
StartOfToday == call.now - (call.now % MinutesPerDay)

--------------------------------------------------------------------------
(* Specification SpecPattern: getHistoricalPattern over reports of every type *)

MaxPatternReports == 3

\* Monday of week 0 at 08:05 (inside the window of hour 8) and at 08:35 (outside)
PatternTimes == { MondayEight + 5, MondayEight + 35 }

\* Reports of the five types and of a type outside the enumeration on one road,
\* and a report on another road
PatternPool ==
    { ReportInput(Road1, NameKN5Ave, type, None, None) :
        type \in ReportTypes \cup { "unknown" } }
    \cup { ReportInput(Road2, NameKG7St, "heavy", None, None) }

InitPattern == Init /\ now \in PatternTimes

NextPattern ==
    \/ AddReport(PatternPool, PatternTimes, MaxPatternReports)
    \/ HistoricalPattern({ Road1, None }, { NameKn5, None }, { 1 }, { 8 })

SpecPattern == InitPattern /\ [][NextPattern]_vars

\* The reports the last getHistoricalPattern call selected: those of the roadId
\* query when roadId is given and the query finds any, otherwise those of the
\* street-name query when a street name is given
SelectedReports ==
    LET byRoad == GetHistoricalReports(call.roadId, call.dayOfWeek, call.timeWindow,
                                       DefaultToleranceMinutes)
        byName == GetHistoricalReportsByStreetName(call.streetName, call.dayOfWeek,
                                                   call.timeWindow,
                                                   DefaultToleranceMinutes)
    IN  IF call.roadId # None /\ byRoad # <<>> THEN byRoad
        ELSE IF call.streetName # None THEN byName
        ELSE <<>>

\* Number of selected reports of a type
SelectedOfType(type) ==
    Cardinality({ i \in 1..Len(SelectedReports) : SelectedReports[i].reportType = type })

\* The order of C5: blocked, heavy, medium, light, accident
ClaimedPriority == << "blocked", "heavy", "medium", "light", "accident" >>

C6_NullIffNothingSelected ==
    call.op = "getHistoricalPattern" =>
        (ret = None <=> SelectedReports = <<>>)

\* C6 as amended: getHistoricalPattern returns null exactly when the selected
\* reports (those of the roadId query when it finds any, otherwise those of the
\* street-name query) include no report of one of the five types; otherwise it
\* returns a pattern.
C6_NullIffNoValidType ==
    call.op = "getHistoricalPattern" =>
        (ret = None <=> \A type \in ReportTypes : SelectedOfType(type) = 0)

\* C6 witness: null is returned for a selection that is not empty, and which
\* was found by the street name.
C6_Witness ==
    /\ call.op = "getHistoricalPattern"
    /\ call.roadId = None
    /\ Len(SelectedReports) > 0
    /\ ret = None

\* C6 witness of the other case: a pattern is returned for a selection found by
\* the street name.
PatternByStreetName ==
    /\ call.op = "getHistoricalPattern"
    /\ call.roadId = None
    /\ ret # None

--------------------------------------------------------------------------
(* Specification SpecLookup: the lookups of the store by place, road and name *)

MaxLookupReports == 3

\* Positions of a report: no coordinates, a longitude only, 16 m from P, 189 m
\* from P, 200.1 m from P, and on the equator at Z
LookupPositions ==
    { << None, None >>,
      << None, Some(300500) >>,
      << Some(-19501), Some(300501) >>,
      << Some(-19500), Some(300517) >>,
      << Some(-19518), Some(300500) >>,
      << Some(0), Some(300500) >> }

LookupNames == { NameKN5Ave, NameKG7St, NameRoadR1, None }

\* Reports of road 1 at every position, and reports of road 2 without
\* coordinates under every name
LookupPool ==
    { ReportInput(Road1, NameKN5Road, "heavy", pos[1], pos[2]) :
        pos \in LookupPositions }
    \cup { ReportInput(Road2, name, "light", None, None) : name \in LookupNames }

InitLookup == Init /\ now = MondayEight

NextLookup ==
    \/ AddReport(LookupPool, { MondayEight }, MaxLookupReports)
    \/ NearLocation({ PointP, PointZ }, { MatchRadiusMeters })
    \/ RoadReports({ Road1, Road2 })
    \/ ByStreetName({ NameKn5, NameKN5Ave, NameKN5Road, NameKG7St, None })

SpecLookup == InitLookup /\ [][NextLookup]_vars

\* C8 (proximity lookup): getReportsNearLocation(lat, lng, r) returns exactly the
\* stored reports that carry a latitude and a longitude, 0 included, and lie at
\* most r metres from (lat, lng).
C8_NearLocationExact ==
    call.op = "getReportsNearLocation" =>
        Range(ret) = { r \in Range(reports) :
                         /\ r.lat # None
                         /\ r.lng # None
                         /\ WithinDistance(r.lat[1], r.lng[1], call.lat, call.lng,
                                           call.maxDistanceMeters) }

\* A report stored without latitude or without longitude
LacksCoordinates(r) == r.lat = None \/ r.lng = None

\* The two names, in lower case and trimmed, are equal or one contains the other
NamesContain(a, b) ==
    \/ Includes(Trim(ToLowerCase(a)), Trim(ToLowerCase(b)))
    \/ Includes(Trim(ToLowerCase(b)), Trim(ToLowerCase(a)))

\* C9 (reports without coordinates): a report stored without lat/lng is never
\* returned by the proximity lookup; it is returned by getReportsForRoad for its
\* roadId and by getReportsByStreetName for a name that contains or is contained
\* in its roadName, and getReportSummary counts it.
C9_ReportsWithoutCoordinates ==
    \A r \in { x \in Range(reports) : LacksCoordinates(x) } :
        /\ call.op = "getReportsNearLocation" => r \notin Range(ret)
        /\ call.op = "getReportsForRoad" =>
              /\ r.roadId = call.roadId => r \in Range(ret.reports)
              /\ \A type \in ReportTypes :
                    ret.summary[type] =
                        Cardinality({ x \in Range(reports) :
                                        x.roadId = call.roadId /\ x.reportType = type })
        /\ call.op = "getReportsByStreetName" =>
              ( call.streetName # None /\ NamesContain(r.roadName, call.streetName)
                  => r \in Range(ret) )

\* C9 witness: the reports of a road were asked for, and a report of that road
\* without coordinates is stored beside one with coordinates.
C9_Witness ==
    /\ call.op = "getReportsForRoad"
    /\ \E r \in Range(ret.reports) : LacksCoordinates(r) /\ ret.summary[r.reportType] = 2
    /\ \E r \in Range(ret.reports) : ~LacksCoordinates(r)

\* The road code of a name without its white space
NormalizedRoadCode(name) ==
    LET code == MatchRoadCode(Trim(ToLowerCase(name)))
    IN  IF code = None THEN None
        ELSE Some(SelectSeq(code[1], LAMBDA c : ~IsSpace(c)))

\* C10 (street-name matching): getReportsByStreetName(name) returns every report
\* whose roadName, case-insensitively, contains name or is contained in it, or
\* holds the same road code as name once the white space inside the code is
\* normalised ('KN5 Road' and 'KN 5 Ave').
C10_StreetNameMatching ==
    call.op = "getReportsByStreetName" /\ call.streetName # None =>
        \A r \in Range(reports) :
            ( \/ NamesContain(r.roadName, call.streetName)
              \/ /\ NormalizedRoadCode(r.roadName) # None
                 /\ NormalizedRoadCode(r.roadName) = NormalizedRoadCode(call.streetName) )
            => r \in Range(ret)

\* The part of C10 that holds: names that contain one another, and names with
\* the same road code written the same way.
StreetNameMatchingVerbatim ==
    call.op = "getReportsByStreetName" /\ call.streetName # None =>
        \A r \in Range(reports) :
            ( \/ NamesContain(r.roadName, call.streetName)
              \/ /\ MatchRoadCode(Trim(ToLowerCase(r.roadName))) # None
                 /\ MatchRoadCode(Trim(ToLowerCase(r.roadName)))
                      = MatchRoadCode(Trim(ToLowerCase(call.streetName))) )
            <=> r \in Range(ret)

--------------------------------------------------------------------------
(* Specification SpecSummary: the summary of the reports of a road,         *)
(* GET /api/reports/road/:roadId                                            *)

MaxSummaryReports == 3

\* Report types: the five of the summary, one that is no property of an object,
\* and one that every object literal inherits
SummaryTypes == ReportTypes \cup { "unknown", "constructor" }

SummaryPool ==
    { ReportInput(Road1, NameKN5Ave, type, None, None) : type \in SummaryTypes }
    \cup { ReportInput(Road2, NameKG7St, "light", None, None) }

InitSummary == Init /\ now = MondayEight

NextSummary ==
    \/ AddReport(SummaryPool, { MondayEight }, MaxSummaryReports)
    \/ RoadReports({ Road1, Road2, Road3 })

SpecSummary == InitSummary /\ [][NextSummary]_vars

\* The number of reports of a list that have a type
NumberOfType(rs, type) ==
    Cardinality({ i \in 1..Len(rs) : rs[i].reportType = type })

\* C11 (summary): getReportSummary(reports) has exactly the keys light, medium,
\* heavy, blocked and accident, each holding the number of reports of that type;
\* reports of any other type are ignored, and the empty list gives all zeros.
C11_SummaryCounts ==
    call.op = "getReportsForRoad" =>
        /\ DOMAIN ret.summary = ReportTypes
        /\ \A type \in ReportTypes :
              ret.summary[type] = NumberOfType(ret.reports, type)

\* The part of C11 that holds: the five counts are right for every list, and
\* the keys are the five when no report has a type that objects inherit.
SummaryCountsOfOwnKeys ==
    call.op = "getReportsForRoad" =>
        /\ ReportTypes \subseteq DOMAIN ret.summary
        /\ \A type \in ReportTypes :
              ret.summary[type] = NumberOfType(ret.reports, type)
        /\ ( \A r \in Range(ret.reports) : r.reportType \notin InheritedDataProperties )
              => DOMAIN ret.summary = ReportTypes

--------------------------------------------------------------------------
(* Specification SpecIds: the ids and timestamps addReport gives, from the   *)
(* reports.json that loadReports found                                       *)

MaxIdReports == 4

MaxFileReports == 2

\* Ids of the reports of a file
FileIds == { 1, 3, 7 }

\* A report as saveReports wrote it
StoredReport(id) ==
    [ id |-> Some(id), roadId |-> Road1, roadName |-> NameKN5Ave,
      reportType |-> "heavy", lat |-> None, lng |-> None,
      timestamp |-> MondayEight - MinutesPerDay ]

\* Files: none, and files of up to MaxFileReports reports with distinct ids in
\* any order, whose nextId is missing, behind the ids or ahead of them
IdFiles ==
    { None } \cup
    { Some([ reports |-> [ i \in 1..Len(ids) |-> StoredReport(ids[i]) ], nextId |-> n ]) :
        ids \in { q \in { <<>> } \cup SeqsUpTo(FileIds, MaxFileReports) :
                    \A i, j \in 1..Len(q) : i # j => q[i] # q[j] },
        n \in { None, Some(1), Some(5) } }

\* Inputs of addReport without an id: without a timestamp and with one
IdPool ==
    { [ ReportInput(Road2, NameKG7St, "light", None, None) EXCEPT !.timestamp = ts ] :
        ts \in { None, Some(MondayEight - MinutesPerHour) } }

InitIds ==
    /\ \E file \in IdFiles :
          /\ reports = LoadReports(file).reports
          /\ nextId = LoadReports(file).nextId
    /\ now = MondayEight
    /\ call = Idle
    /\ ret = <<>>
    /\ inflight = <<>>
    /\ InitAside

NextIds == AddReport(IdPool, { MondayEight, MondayEight + 5 }, MaxIdReports)

SpecIds == InitIds /\ [][NextIds]_vars

\* C12 (unique ids): from any loaded file and after any addReport calls whose
\* input has no id, the ids of the collection are pairwise distinct, the id
\* addReport assigned is greater than every id that was in the collection, a
\* supplied timestamp is kept and a missing one is the time of the call.
C12_UniqueIds ==
    /\ \A i, j \in 1..Len(reports) :
          reports[i].id # None /\ (i # j => reports[i].id # reports[j].id)
    /\ call.op = "addReport" =>
          /\ ret = reports[Len(reports)]
          /\ \A i \in 1..(Len(reports) - 1) : reports[i].id[1] < ret.id[1]
          /\ ret.timestamp = IF call.report.timestamp # None
                             THEN call.report.timestamp[1]
                             ELSE call.now

\* addReport gave id 8 and kept the supplied timestamp after a file with the
\* ids 7 and 3 and a nextId of 1, and then gave id 9 and the time of the call
C12_Witness ==
    /\ call.op = "addReport"
    /\ Len(reports) = 4
    /\ reports[1].id = Some(7) /\ reports[2].id = Some(3)
    /\ reports[3].id = Some(8) /\ reports[3].timestamp = MondayEight - MinutesPerHour
    /\ ret.id = Some(9) /\ call.report.timestamp = None
    /\ ret.timestamp = MondayEight + 5

--------------------------------------------------------------------------
(* Specification SpecStore: every operation of the store on one collection *)

MaxStoreReports == 3

StoreTimes == { MondayEight, MondayEight + 5 }

StorePool ==
    { ReportInput(Road1, NameKN5Ave, "heavy", Some(PointP.lat), Some(PointP.lng)),
      ReportInput(Road1, NameKN5Ave, "medium", None, None),
      ReportInput(Road2, NameKG7St, "light", None, None) }

InitStore == Init /\ now = MondayEight

NextStore ==
    \/ AddReport(StorePool, StoreTimes, MaxStoreReports)
    \/ AllReports
    \/ NearLocation({ PointP }, { MatchRadiusMeters })
    \/ RoadReports({ Road1, Road2 })
    \/ ByStreetName({ NameKn5 })
    \/ FlaggedRoads
    \/ HistoricalPattern({ Road1 }, { None }, { 1 }, { 8 })
    \/ PeriodicSave(StoreTimes)

SpecStore == InitStore /\ [][NextStore]_vars

\* C13 (append-only collection): addReport lengthens the collection by one and
\* puts the report it returns last; no operation of the store, the periodic
\* save included, removes, moves or changes a report that is in the collection,
\* so that getAllReports returns every stored report ever after.
C13_AppendOnly ==
    [][ /\ \A i \in 1..Len(reports) :
              i <= Len(reports') /\ reports'[i] = reports[i]
        /\ IF call'.op = "addReport"
           THEN reports' = Append(reports, ret')
           ELSE reports' = reports
        /\ call'.op = "getAllReports" => ret' = reports ]_vars

\* getAllReports returned three reports in the order of their ids after the
\* other operations of the store had run on them
C13_Witness ==
    /\ call.op = "getAllReports"
    /\ Len(ret) = MaxStoreReports
    /\ \A i \in 1..Len(ret) : ret[i].id = Some(i)
    /\ ret[1].timestamp < now

--------------------------------------------------------------------------
(* Specification SpecRoute: the flag and the traffic summary of a route of  *)
(* several segments                                                         *)

MaxRouteReports == 3

MaxRouteSegments == 2

\* A report of the second time is live at that time, one of the first is not
RouteTimes == { MondayEight, MondayEight + 15 }

RoutePool ==
    { ReportInput(Road1, NameKN5Ave, "heavy", None, None),
      ReportInput(Road1, NameKN5Ave, "medium", None, None),
      ReportInput(Road2, NameKG7St, "heavy", None, None) }

\* Segments that match by their roadId alone
RouteSegments == { Segment(roadId, None, <<>>) : roadId \in { Road1, Road2, Road3 } }

\* Every route alone, and one list of two routes
RouteLists ==
    { << Route(segs) >> : segs \in SeqsUpTo(RouteSegments, MaxRouteSegments) }
    \cup { << Route(<< Segment(Road3, None, <<>>) >>),
              Route(<< Segment(Road1, None, <<>>), Segment(Road2, None, <<>>) >>) >> }

InitRoute == Init /\ now = MondayEight

NextRoute ==
    \/ AddReport(RoutePool, RouteTimes, MaxRouteReports)
    \/ Alternatives(RouteLists, RouteTimes)

SpecRoute == InitRoute /\ [][NextRoute]_vars

\* The stored reports of a road id
StoredOfRoad(roadId) == { r \in Range(reports) : r.roadId = roadId }

\* C14 (route flag): hasFlaggedRoads of an annotated route is true exactly when
\* one of its segments has a matched report, live or not; the matched reports of
\* these segments are the stored reports of the segment's road.
C14_RouteFlag ==
    call.op = "alternatives" =>
        \A i \in 1..Len(ret) :
            /\ \A k \in 1..Len(ret[i].roadSegments) :
                  Range(ret[i].roadSegments[k].reports)
                      = StoredOfRoad(call.routes[i].roadSegments[k].roadId)
            /\ ret[i].hasFlaggedRoads
                  <=> \E k \in 1..Len(ret[i].roadSegments) :
                          ret[i].roadSegments[k].reports # <<>>

\* A route is flagged by a segment whose only matched report is no longer live,
\* next to a route without any matched report
C14_Witness ==
    /\ call.op = "alternatives"
    /\ Len(ret) = 2
    /\ ~ret[1].hasFlaggedRoads
    /\ ret[2].hasFlaggedRoads
    /\ \A k \in 1..Len(ret[2].roadSegments) : ~ret[2].roadSegments[k].hasLiveData
    /\ ret[2].roadSegments[2].reports = <<>>

Severities == { "heavy", "medium", "light", "blocked" }

\* C15 (traffic summary): trafficSummary has, for heavy, medium, light and
\* blocked, the number of segments of the route with at least one matched
\* report of that severity, so between 0 and the number of segments.
C15_TrafficSummary ==
    call.op = "alternatives" =>
        \A i \in 1..Len(ret) :
            /\ DOMAIN ret[i].trafficSummary = Severities
            /\ \A s \in Severities :
                  /\ ret[i].trafficSummary[s]
                        = Cardinality({ k \in 1..Len(ret[i].roadSegments) :
                            \E r \in Range(ret[i].roadSegments[k].reports) :
                                r.reportType = s })
                  /\ ret[i].trafficSummary[s] \in 0..Len(call.routes[i].roadSegments)

\* A route of two segments, the first with two heavy reports and a medium one,
\* the second without reports: heavy counts one segment
C15_Witness ==
    /\ call.op = "alternatives"
    /\ Len(ret) = 1
    /\ Len(ret[1].roadSegments) = 2
    /\ ret[1].roadSegments[1].reportSummary["heavy"] = 2
    /\ ret[1].roadSegments[1].reportSummary["medium"] = 1
    /\ ret[1].roadSegments[2].reportCount = 0
    /\ ret[1].trafficSummary["heavy"] = 1
    /\ ret[1].trafficSummary["medium"] = 1

--------------------------------------------------------------------------
(* The route list of the client: client/src/components/RouteList.js *)

\* The comparator that looks at the minutes only
CompareRoutes_EtaOnly(a, b) == a.eta_minutes - b.eta_minutes

\* The comparator of the sort: negative when a goes before b
CompareRoutes(a, b) ==
    IF ~a.hasFlaggedRoads /\ b.hasFlaggedRoads THEN -1
    ELSE IF a.hasFlaggedRoads /\ ~b.hasFlaggedRoads THEN 1
    ELSE a.eta_minutes - b.eta_minutes

\* One step of the stable sort: x goes before the first route that the
\* comparator puts after it
InsertRoute(sorted, x) ==
    LET later == { i \in 1..Len(sorted) : CompareRoutes(sorted[i], x) > 0 }
        p     == IF later = {} THEN Len(sorted) + 1
                 ELSE CHOOSE i \in later : \A j \in later : i <= j
    IN  SubSeq(sorted, 1, p - 1) \o << x >> \o SubSeq(sorted, p, Len(sorted))

RECURSIVE SortFirst(_, _)
\* The first n routes of a list, sorted
SortFirst(routes, n) ==
    IF n = 0 THEN <<>> ELSE InsertRoute(SortFirst(routes, n - 1), routes[n])

\* [...routes].sort(comparator): Array.prototype.sort is stable
SortedRoutes(routes) == SortFirst(routes, Len(routes))

\* RouteList that sorts the array it was given
RenderRouteList_InPlace(routes) ==
    LET sortedRoutes == SortedRoutes(routes)
    IN  [ routes |-> sortedRoutes,
          note   |-> \E i \in 1..Len(routes) : routes[i].hasFlaggedRoads,
          cards  |-> [ index \in 1..Len(sortedRoutes) |->
                        [ route         |-> sortedRoutes[index],
                          isRecommended |-> index = 1
                                            /\ ~sortedRoutes[index].hasFlaggedRoads ] ] ]

\* RouteList({ routes }): the array of the caller after the render, whether the
\* note on flagged roads is shown, and the route cards from top to bottom
RenderRouteList(routes) ==
    LET sortedRoutes == SortedRoutes(routes)
    IN  [ routes |-> routes,
          note   |-> \E i \in 1..Len(routes) : routes[i].hasFlaggedRoads,
          cards  |-> [ index \in 1..Len(sortedRoutes) |->
                        [ route         |-> sortedRoutes[index],
                          isRecommended |-> index = 1
                                            /\ ~sortedRoutes[index].hasFlaggedRoads ] ] ]

\* The client renders the routes of a response
RouteList(routeLists) ==
    \E routes \in routeLists :
        /\ call' = [ op |-> "RouteList", routes |-> routes ]
        /\ ret' = RenderRouteList(routes)
        /\ UNCHANGED <<reports, nextId, now, inflight, aside>>

--------------------------------------------------------------------------
(* Specification SpecRouteList: the order of the routes shown *)

MaxListRoutes == 4

ListEtas == { 10, 12 }

\* The routes of a response: route_1, route_2, ... in the order of the server
ListRouteLists ==
    { [ i \in 1..Len(q) |->
          [ id |-> i, hasFlaggedRoads |-> q[i][1], eta_minutes |-> q[i][2] ] ] :
        q \in { <<>> } \cup SeqsUpTo(BOOLEAN \X ListEtas, MaxListRoutes) }

InitRouteList == Init /\ now = MondayEight

NextRouteList == RouteList(ListRouteLists)

SpecRouteList == InitRouteList /\ [][NextRouteList]_vars

\* C16 (route order): the cards are the routes of the input, those without
\* flagged roads before those with, by ascending eta_minutes within each group;
\* the input list keeps its order; only the first card can be recommended, and
\* it is when its route has no flagged road.
C16_RouteOrdering ==
    call.op = "RouteList" =>
        /\ Len(ret.cards) = Len(call.routes)
        /\ { ret.cards[i].route : i \in 1..Len(ret.cards) } = Range(call.routes)
        /\ \A i, j \in 1..Len(ret.cards) :
              i < j =>
                /\ ~(ret.cards[i].route.hasFlaggedRoads
                       /\ ~ret.cards[j].route.hasFlaggedRoads)
                /\ ret.cards[i].route.hasFlaggedRoads = ret.cards[j].route.hasFlaggedRoads
                     => ret.cards[i].route.eta_minutes <= ret.cards[j].route.eta_minutes
        /\ ret.routes = call.routes
        /\ \A i \in 1..Len(ret.cards) :
              ret.cards[i].isRecommended
                  <=> (i = 1 /\ ~ret.cards[i].route.hasFlaggedRoads)

\* A fast flagged route came first from the server and is shown last, behind
\* the two routes without flagged roads in the order of their minutes
C16_Witness ==
    /\ call.op = "RouteList"
    /\ Len(call.routes) = 3
    /\ call.routes[1].hasFlaggedRoads /\ call.routes[1].eta_minutes = 10
    /\ ~call.routes[2].hasFlaggedRoads /\ call.routes[2].eta_minutes = 12
    /\ ~call.routes[3].hasFlaggedRoads /\ call.routes[3].eta_minutes = 10
    /\ ret.cards[1].route.id = 3 /\ ret.cards[1].isRecommended
    /\ ret.cards[2].route.id = 2
    /\ ret.cards[3].route.id = 1

--------------------------------------------------------------------------
(* The route service: server/services/routeService.js                       *)
(* A route distance of OSRM is an integer number of metres, a distance_km   *)
(* (the string of toFixed(1)) the number of tenths of a kilometre it shows,  *)
(* and a waypoint coordinate an integer number of 1e-6 degrees.             *)

\* Math.sqrt, rounded down (exact on the squares)
Sqrt(n) == CHOOSE r \in 0..n : r * r <= n /\ (r + 1) * (r + 1) > n

\* const waypointPositions = [0.33, 0.67], in hundredths
WaypointPositions == << 33, 67 >>

\* const offsetAmount = 0.015, in 1e-6 degree
OffsetAmount == 15000

\* generateIntermediateWaypoints with both waypoints of a pair on one side
GenerateIntermediateWaypoints_OneSide(start, end) ==
    LET dLat     == end.lat - start.lat
        dLng     == end.lng - start.lng
        distance == Sqrt(dLat * dLat + dLng * dLng)
    IN  [ n \in 1..(2 * Len(WaypointPositions)) |->
            LET t        == WaypointPositions[(n + 1) \div 2]
                alongLat == start.lat * 100 + dLat * t
                alongLng == start.lng * 100 + dLng * t
                side     == IF n % 2 = 1 THEN 1 ELSE 2
            IN  [ lat  |-> IF distance = 0 THEN NaN
                           ELSE alongLat + side * ((-dLng * OffsetAmount) \div distance),
                  lng  |-> IF distance = 0 THEN NaN
                           ELSE alongLng + side * ((dLat * OffsetAmount) \div distance),
                  name |-> n ] ]

\* generateIntermediateWaypoints(start, end), for start and end in 1e-4 degree:
\* 'Waypoint 1' .. 'Waypoint 4', the odd ones on one side of the line at 0.33 and
\* 0.67 of the way, the even ones on the other.  With start = end the division
\* is 0 / 0 and every coordinate is NaN.
GenerateIntermediateWaypoints(start, end) ==
    LET dLat     == end.lat - start.lat
        dLng     == end.lng - start.lng
        distance == Sqrt(dLat * dLat + dLng * dLng)
    IN  [ n \in 1..(2 * Len(WaypointPositions)) |->
            LET t        == WaypointPositions[(n + 1) \div 2]
                alongLat == start.lat * 100 + dLat * t
                alongLng == start.lng * 100 + dLng * t
                side     == IF n % 2 = 1 THEN 1 ELSE -1
            IN  [ lat  |-> IF distance = 0 THEN NaN
                           ELSE alongLat + side * ((-dLng * OffsetAmount) \div distance),
                  lng  |-> IF distance = 0 THEN NaN
                           ELSE alongLng + side * ((dLat * OffsetAmount) \div distance),
                  name |-> n ] ]

\* (route.distance / 1000).toFixed(1), for a distance that is not half-way
\* between two tenths
ToFixed1(metres) == (metres + 50) \div 100

\* The pairs of distance_km that are 0.5 apart as decimals and less than 0.5
\* apart as doubles (0.7 - 0.2 is 0.49999999999999994), up to 30 km
InexactHalfKm ==
    { << 2, 7 >>, << 9, 14 >>, << 18, 23 >>, << 36, 41 >>, << 77, 82 >>, << 159, 164 >> }

\* Math.abs(parseFloat(existing.distance_km) - parseFloat(distance)) < 0.5
TooSimilar(existingKm, distanceKm) ==
    \/ Abs(existingKm - distanceKm) < 5
    \/ << existingKm, distanceKm >> \in InexactHalfKm
    \/ << distanceKm, existingKm >> \in InexactHalfKm

\* The entry of allRoutes for an OSRM route; distance is route.distance of the
\* OSRM route, which the entry itself does not keep
RouteData(allRoutes, metres) ==
    [ id |-> Len(allRoutes) + 1, distance_km |-> ToFixed1(metres), distance |-> metres ]

RECURSIVE StandardRoutes(_)
\* allRoutes after the loop over the routes of the first response
StandardRoutes(standard) ==
    IF Len(standard) = 0 THEN <<>>
    ELSE LET allRoutes == StandardRoutes(SubSeq(standard, 1, Len(standard) - 1))
         IN  Append(allRoutes, RouteData(allRoutes, standard[Len(standard)]))

\* One turn of the loop over the waypoints: the response is None when the
\* request failed or brought no route
WithWaypointRoute(allRoutes, response) ==
    IF response = None THEN allRoutes
    ELSE LET isUnique == ~\E k \in 1..Len(allRoutes) :
                             TooSimilar(allRoutes[k].distance_km, ToFixed1(response[1]))
         IN  IF isUnique THEN Append(allRoutes, RouteData(allRoutes, response[1]))
             ELSE allRoutes

\* getRoutesFromOSRM(start, end): the first response has arrived
OsrmStandard(trips, standardLists) ==
    \E trip \in trips, standard \in standardLists :
        /\ call' = [ op |-> "getRoutesFromOSRM", start |-> trip[1], end |-> trip[2],
                     standard |-> standard, responses |-> <<>> ]
        /\ ret' = StandardRoutes(standard)
        /\ UNCHANGED <<reports, nextId, now, inflight, aside>>

\* getRoutesFromOSRM: the response for the next waypoint has arrived; ret is
\* allRoutes, returned after the last waypoint
OsrmWaypoint(distances) ==
    /\ call.op = "getRoutesFromOSRM"
    /\ Len(call.responses) < Len(GenerateIntermediateWaypoints(call.start, call.end))
    /\ \E response \in distances :
        /\ call' = [ call EXCEPT !.responses = Append(@, response) ]
        /\ ret' = WithWaypointRoute(ret, response)
        /\ UNCHANGED <<reports, nextId, now, inflight, aside>>

\* routeService.generateIntermediateWaypoints(start, end)
IntermediateWaypoints(trips) ==
    \E trip \in trips :
        /\ call' = [ op |-> "generateIntermediateWaypoints",
                     start |-> trip[1], end |-> trip[2] ]
        /\ ret' = GenerateIntermediateWaypoints(trip[1], trip[2])
        /\ UNCHANGED <<reports, nextId, now, inflight, aside>>

--------------------------------------------------------------------------
(* Specification SpecOsrm: the routes getRoutesFromOSRM collects *)

MaxStandardRoutes == 2

OsrmTrips == { << PointP, PointQ >> }

\* Distances, in metres, of the routes of the first response
StandardDistances == { 10000, 10040, 15900 }

\* What a waypoint request brings: nothing, or a route of a distance in metres
WaypointResponses ==
    { None, Some(10400), Some(10460), Some(10600), Some(16400) }

InitOsrm == Init /\ now = MondayEight

NextOsrm ==
    \/ OsrmStandard(OsrmTrips, SeqsUpTo(StandardDistances, MaxStandardRoutes))
    \/ OsrmWaypoint(WaypointResponses)

SpecOsrm == InitOsrm /\ [][NextOsrm]_vars

\* The least difference of two routes that are both kept, in metres
MinDifferenceMetres == 500

\* C17 (deduplication threshold): a route found through a waypoint is among the
\* collected routes only if its distance differs by at least 500 m from that of
\* every route collected before it; routes less than 500 m apart are duplicates.
C17_DedupThreshold ==
    call.op = "getRoutesFromOSRM" =>
        \A k \in (Len(call.standard) + 1)..Len(ret) :
            \A j \in 1..(k - 1) :
                Abs(ret[k].distance - ret[j].distance) >= MinDifferenceMetres

\* What holds in place of C17: the threshold is applied to the distances as
\* shown with one decimal.  A waypoint route is kept only if its distance_km is
\* at least 0.5 from every one collected before, and a response that was not
\* kept is too similar, by TooSimilar, to a collected route.
DedupOnShownDistance ==
    call.op = "getRoutesFromOSRM" =>
        /\ \A k \in (Len(call.standard) + 1)..Len(ret) :
              \A j \in 1..(k - 1) :
                  Abs(ret[k].distance_km - ret[j].distance_km) >= 5
        /\ \A n \in 1..Len(call.responses) :
              call.responses[n] # None =>
                  \E k \in 1..Len(ret) :
                      \/ ret[k].distance = call.responses[n][1]
                      \/ TooSimilar(ret[k].distance_km, ToFixed1(call.responses[n][1]))

\* The examples of C17: after a route of 10.0 km, one of 10.4 km is dropped and
\* one of 10.6 km is kept
DedupExamples ==
    /\ call.op = "getRoutesFromOSRM"
    /\ call.standard = << 10000 >>
    /\ call.responses = << Some(10400), Some(10600) >>
    /\ Len(ret) = 2 /\ ret[2].distance = 10600

\* A route of 16.4 km is dropped after one of 15.9 km: the doubles are less
\* than 0.5 apart
DedupInexact ==
    /\ call.op = "getRoutesFromOSRM"
    /\ call.standard = << 15900 >>
    /\ call.responses = << Some(16400) >>
    /\ Len(ret) = 1

--------------------------------------------------------------------------
(* Specification SpecWaypoints: the waypoints between a start and an end *)

\* Displacements from start to end, in 1e-4 degree, of integral length (so that
\* the square root and the divisions are exact), and no displacement at all
TripVectors ==
    { << 0, 0 >> }
    \cup { << a * x, b * y >> : a \in { -1, 1 }, b \in { -1, 1 },
                               x \in { 30, 60 }, y \in { 40, 80 } }
    \cup { << a * y, b * x >> : a \in { -1, 1 }, b \in { -1, 1 },
                               x \in { 30 }, y \in { 40 } }
    \cup { << a * 50, 0 >> : a \in { -2, -1, 1, 2 } }
    \cup { << 0, a * 50 >> : a \in { -2, -1, 1, 2 } }

TripStarts ==
    { PointP, PointQ, PointZ, [ lat |-> -19000, lng |-> 301000 ] }

WaypointTrips ==
    { << start, [ lat |-> start.lat + v[1], lng |-> start.lng + v[2] ] >> :
        start \in TripStarts, v \in TripVectors }

InitWaypoints == Init /\ now = MondayEight

NextWaypoints == IntermediateWaypoints(WaypointTrips)

SpecWaypoints == InitWaypoints /\ [][NextWaypoints]_vars

\* The point at t hundredths of the way from start to end, in 1e-6 degree
PointAlong(start, end, t) ==
    [ lat |-> start.lat * 100 + (end.lat - start.lat) * t,
      lng |-> start.lng * 100 + (end.lng - start.lng) * t ]

\* Positive for a point on one side of the line from start to end and negative
\* for a point on the other, the point being given by its offset from a point
\* of the line
SideOf(start, end, offLat, offLng) ==
    (end.lat - start.lat) * offLng - (end.lng - start.lng) * offLat

\* C18 (waypoints): for start # end, generateIntermediateWaypoints returns four
\* waypoints: at 0.33 and at 0.67 of the straight line one on each side of the
\* line, the two being mirror images about the point of the line.
C18_FourWaypoints ==
    call.op = "generateIntermediateWaypoints" /\ call.start # call.end =>
        /\ Len(ret) = 4
        /\ \A pair \in 1..2 :
              LET along == PointAlong(call.start, call.end, << 33, 67 >>[pair])
                  first  == ret[2 * pair - 1]
                  second == ret[2 * pair]
              IN  /\ first.lat + second.lat = 2 * along.lat
                  /\ first.lng + second.lng = 2 * along.lng
                  /\ SideOf(call.start, call.end,
                            first.lat - along.lat, first.lng - along.lng) > 0
                  /\ SideOf(call.start, call.end,
                            second.lat - along.lat, second.lng - along.lng) < 0

\* Waypoints of a trip that runs north-east: the first is 0.009 degree south and
\* 0.012 degree east of the point at 0.33 of the line, the fourth 0.009 degree
\* north and 0.012 degree west of the point at 0.67
C18_Witness ==
    /\ call.op = "generateIntermediateWaypoints"
    /\ call.start = PointP
    /\ call.end = [ lat |-> PointP.lat + 40, lng |-> PointP.lng + 30 ]
    /\ Len(ret) = 4
    /\ ret[1].lat = PointAlong(call.start, call.end, 33).lat - 9000
    /\ ret[1].lng = PointAlong(call.start, call.end, 33).lng + 12000
    /\ ret[4].lat = PointAlong(call.start, call.end, 67).lat + 9000
    /\ ret[4].lng = PointAlong(call.start, call.end, 67).lng - 12000

\* With start = end the four waypoints have no coordinates (NaN)
WaypointsOfNoTrip ==
    call.op = "generateIntermediateWaypoints" /\ call.start = call.end =>
        Len(ret) = 4 /\ \A n \in 1..4 : ret[n].lat = NaN /\ ret[n].lng = NaN

--------------------------------------------------------------------------
(* The effect of the annotation on the store, under SpecAnnotate *)

\* C19 (annotation reads only): annotating a list of routes leaves the report
\* collection as it was, in length, order and every field, and the next id too;
\* the routes and segments handed in are found unchanged inside the annotated
\* routes and segments, which are built beside them.
C19_AnnotationReadOnly ==
    [][ call'.op = "alternatives" =>
          /\ reports' = reports
          /\ nextId' = nextId
          /\ Len(ret') = Len(call'.routes)
          /\ \A i \in 1..Len(ret') :
                /\ ret'[i].route = call'.routes[i]
                /\ Len(ret'[i].roadSegments) = Len(call'.routes[i].roadSegments)
                /\ \A k \in 1..Len(ret'[i].roadSegments) :
                      ret'[i].roadSegments[k].segment = call'.routes[i].roadSegments[k] ]_vars

\* An annotation that matched two stored reports, none of them live, and found
\* the historical pattern of the road
C19_Witness ==
    /\ call.op = "alternatives"
    /\ Len(reports) = 3
    /\ ret[1].hasFlaggedRoads
    /\ ret[1].roadSegments[1].reportCount = 2
    /\ ret[1].roadSegments[1].recentReportCount = 0
    /\ ret[1].roadSegments[1].historicalPattern # None

--------------------------------------------------------------------------
(* Specification SpecConcurrent: POST /api/reports requests that overlap     *)
(* each other and the lookups of other requests                             *)

MaxConcurrentReports == 3

MaxInflight == 2

ConcurrentTimes == { MondayEight, MondayEight + 1 }

\* Bodies of POST /api/reports: two reports, and one without reportType
ConcurrentBodies ==
    { [ roadId |-> Road1, roadName |-> NameKN5Ave, reportType |-> Some("heavy"),
        lat |-> Some(PointP.lat), lng |-> Some(PointP.lng) ],
      [ roadId |-> Road2, roadName |-> None, reportType |-> Some("light"),
        lat |-> Some(0), lng |-> Some(PointZ.lng) ],
      [ roadId |-> Road1, roadName |-> NameKN5Ave, reportType |-> None,
        lat |-> None, lng |-> None ] }

InitConcurrent == Init /\ now = MondayEight

NextConcurrent ==
    \/ PostReportBegin(ConcurrentBodies, ConcurrentTimes, MaxInflight)
    \/ PostReportSave(ConcurrentTimes, MaxConcurrentReports)
    \/ AllReports
    \/ RoadReports({ Road1, Road2 })
    \/ NearLocation({ PointP }, { MatchRadiusMeters })

SpecConcurrent == InitConcurrent /\ [][NextConcurrent]_vars

\* The reports a lookup returned
Observed ==
    IF call.op \in { "getAllReports", "getReportsNearLocation" } THEN Range(ret)
    ELSE IF call.op = "getReportsForRoad" THEN Range(ret.reports)
    ELSE {}

\* C20 (no partial report): however the report submissions and the lookups of
\* other requests interleave, every report of the collection, and so every
\* report a lookup returns, has its id and its timestamp, and the collection
\* holds the reports of the finished addReport calls only: those of the requests
\* that still wait are not in it.
C20_NoPartialReport ==
    /\ \A r \in Range(reports) \cup Observed :
          /\ r.id # None
          /\ r.id[1] \in 1..(nextId - 1)
          /\ r.timestamp \in 0..now
    /\ Observed \subseteq Range(reports)
    /\ Len(reports) = nextId - 1
    /\ \A i, j \in 1..Len(reports) : i < j => reports[i].id[1] < reports[j].id[1]

\* A lookup ran while a submission was waiting for the database: it returned
\* the report of a later submission that had finished, and nothing of the one
\* that waits
C20_Witness ==
    /\ call.op = "getAllReports"
    /\ Len(inflight) = 1
    /\ Len(ret) = 1
    /\ ret[1].id = Some(1)
    /\ inflight[1].timestamp[1] < ret[1].timestamp

--------------------------------------------------------------------------
(* generateRoutes of the route service: OpenRouteService, then OSRM, then   *)
(* the synthetic routes.  What a backend does is an outcome: it threw, or   *)
(* it returned a list of routes.                                            *)

Threw == [ threw |-> TRUE ]

Returned(routes) == [ threw |-> FALSE, routes |-> routes ]

\* The test that takes any returned list, an empty one too
HasRoutes_AnyList(outcome) == ~outcome.threw

\* if (routes && routes.length > 0) return routes; a throw goes to the catch
HasRoutes(outcome) == ~outcome.threw /\ Len(outcome.routes) > 0

\* The key points of a synthetic route that get a road segment
FallbackKeyPoints == 1..3

\* The synthetic routes route_1 .. route_3
FallbackRouteNumbers == 1..3

\* generateFallbackRoutes(start, end): three routes of three segments; a segment
\* has the street name of the map and a geometry when the reverse geocoding of
\* its key point answered, and the name 'Road segment n' without geometry when
\* it failed.  geocoded[i][n] tells which.  Distances and minutes are left out.
GenerateFallbackRoutes(start, end, geocoded) ==
    [ i \in FallbackRouteNumbers |->
        [ id           |-> i,
          source       |-> "fallback",
          start        |-> start,
          end          |-> end,
          roadSegments |-> [ n \in FallbackKeyPoints |->
                              [ roadId      |-> << i - 1, n - 1 >>,
                                named       |-> geocoded[i][n],
                                hasGeometry |-> geocoded[i][n] ] ] ] ]

\* generateRoutes(start, end, flaggedRoads) up to its first await: the request
\* to OpenRouteService is out
GenerateRoutesBegin(trips) ==
    \E trip \in trips :
        /\ call' = [ op |-> "generateRoutes", start |-> trip[1], end |-> trip[2],
                     awaits |-> "OpenRouteService", outcomes |-> <<>> ]
        /\ ret' = [ state |-> "pending" ]
        /\ UNCHANGED <<reports, nextId, now, inflight, aside>>

\* getRoutesFromAPI settled
OpenRouteServiceSettles(outcomes) ==
    /\ call.op = "generateRoutes"
    /\ call.awaits = "OpenRouteService"
    /\ \E outcome \in outcomes :
        /\ IF HasRoutes(outcome)
           THEN /\ call' = [ call EXCEPT !.awaits = "nothing",
                                         !.outcomes = Append(@, outcome) ]
                /\ ret' = [ state |-> "resolved", routes |-> outcome.routes ]
           ELSE /\ call' = [ call EXCEPT !.awaits = "OSRM",
                                         !.outcomes = Append(@, outcome) ]
                /\ ret' = ret
        /\ UNCHANGED <<reports, nextId, now, inflight, aside>>

\* getRoutesFromOSRM settled
OsrmSettles(outcomes) ==
    /\ call.op = "generateRoutes"
    /\ call.awaits = "OSRM"
    /\ \E outcome \in outcomes :
        /\ IF HasRoutes(outcome)
           THEN /\ call' = [ call EXCEPT !.awaits = "nothing",
                                         !.outcomes = Append(@, outcome) ]
                /\ ret' = [ state |-> "resolved", routes |-> outcome.routes ]
           ELSE /\ call' = [ call EXCEPT !.awaits = "fallback",
                                         !.outcomes = Append(@, outcome) ]
                /\ ret' = ret
        /\ UNCHANGED <<reports, nextId, now, inflight, aside>>

\* generateFallbackRoutes settled: every failure of the reverse geocoding is
\* caught inside it
FallbackSettles ==
    /\ call.op = "generateRoutes"
    /\ call.awaits = "fallback"
    /\ \E geocoded \in [ FallbackRouteNumbers -> [ FallbackKeyPoints -> BOOLEAN ] ] :
        /\ call' = [ call EXCEPT !.awaits = "nothing" ]
        /\ ret' = [ state  |-> "resolved",
                    routes |-> GenerateFallbackRoutes(call.start, call.end, geocoded) ]
        /\ UNCHANGED <<reports, nextId, now, inflight, aside>>

--------------------------------------------------------------------------
(* Specification SpecGenerate: the chain of backends of generateRoutes *)

MaxBackendRoutes == 2

\* A route of a backend
BackendRoute(source, i) == [ id |-> i, source |-> source ]

\* What a backend can do: throw, return no route, return some routes
BackendOutcomes(source) ==
    { Threw, Returned(<<>>) }
    \cup { Returned([ i \in 1..n |-> BackendRoute(source, i) ]) :
             n \in 1..MaxBackendRoutes }

InitGenerate == Init /\ now = MondayEight

NextGenerate ==
    \/ GenerateRoutesBegin(OsrmTrips)
    \/ OpenRouteServiceSettles(BackendOutcomes("OpenRouteService"))
    \/ OsrmSettles(BackendOutcomes("OSRM"))
    \/ FallbackSettles

SpecGenerate == InitGenerate /\ [][NextGenerate]_vars

\* C21 (fallback chain): OSRM is asked only after OpenRouteService threw or
\* returned no route, the synthetic generator runs only after OSRM did the
\* same, and generateRoutes resolves, with a list of at least one route, from
\* the first of the three that has routes: it never rejects.
C21_FallbackChain ==
    call.op = "generateRoutes" =>
        /\ ret.state \in { "pending", "resolved" }
        /\ call.awaits = "OpenRouteService" => call.outcomes = <<>>
        /\ call.awaits = "OSRM" =>
              /\ Len(call.outcomes) = 1
              /\ (call.outcomes[1].threw \/ call.outcomes[1].routes = <<>>)
        /\ call.awaits = "fallback" =>
              /\ Len(call.outcomes) = 2
              /\ (call.outcomes[1].threw \/ call.outcomes[1].routes = <<>>)
              /\ (call.outcomes[2].threw \/ call.outcomes[2].routes = <<>>)
        /\ call.awaits = "nothing" <=> ret.state = "resolved"
        /\ ret.state = "resolved" =>
              /\ Len(ret.routes) >= 1
              /\ \A k \in 1..Len(ret.routes) :
                    ret.routes[k].source =
                        IF Len(call.outcomes) = 1 THEN "OpenRouteService"
                        ELSE IF ~call.outcomes[2].threw /\ call.outcomes[2].routes # <<>>
                             THEN "OSRM" ELSE "fallback"
              /\ \A n \in 1..(Len(call.outcomes) - 1) :
                    call.outcomes[n].threw \/ call.outcomes[n].routes = <<>>

\* OpenRouteService threw, OSRM returned an empty list, and generateRoutes
\* resolved with the three synthetic routes
C21_Witness ==
    /\ call.op = "generateRoutes"
    /\ call.outcomes = << Threw, Returned(<<>>) >>
    /\ ret.state = "resolved"
    /\ Len(ret.routes) = 3
    /\ ret.routes[1].source = "fallback"
    /\ ~ret.routes[1].roadSegments[2].hasGeometry

--------------------------------------------------------------------------
(* Server index: GET /api/places/search and its cache of search results *)

\* const CACHE_TTL = 5 * 60 * 1000, in minutes
CACHE_TTL == 5

\* if (searchCache.size > 100): the size above which a store cleans the cache
CacheCleanupSize == 100

\* const queryLower = q.toLowerCase().trim(); const cacheKey = queryLower
CacheKey(q) == Trim(ToLowerCase(q))

\* cached && Date.now() - cached.timestamp < CACHE_TTL
CacheHit(cache, key, t) ==
    key \in DOMAIN cache /\ t - cache[key].timestamp < CACHE_TTL

\* searchCache.set(cacheKey, { results, timestamp })
CacheSet(cache, key, entry) ==
    [ k \in DOMAIN cache \cup { key } |-> IF k = key THEN entry ELSE cache[k] ]

\* The cleaning after a store: above the cleanup size, every entry older than
\* the time to live is deleted, and only those
CleanCache(cache, t) ==
    IF Cardinality(DOMAIN cache) > CacheCleanupSize
    THEN [ k \in { j \in DOMAIN cache : ~(t - cache[j].timestamp > CACHE_TTL) } |-> cache[k] ]
    ELSE cache

\* GET /api/places/search?q=..., one request handled at a time. The request
\* arrives at t and the geocoder answers, or fails, at t2: a missing or empty q
\* is refused with 400, a cached entry younger than the time to live is
\* answered from the cache, and otherwise the geocoder's results are stored
\* under the normalised query, the cache is cleaned and the results are sent;
\* a failure of the geocoder is answered with 500 and stores nothing.
PlaceSearch(queries, times) ==
    \E q \in queries, t \in times, t2 \in times, found \in BOOLEAN :
        /\ t >= now
        /\ t2 >= t
        /\ call' = [ op |-> "placeSearch", q |-> q, now |-> t ]
        /\ IF ~TruthyStr(q)
           THEN /\ t2 = t /\ found
                /\ now' = t
                /\ ret' = [ status |-> 400 ]
                /\ UNCHANGED searchCache
           ELSE IF CacheHit(searchCache, CacheKey(q), t)
           THEN /\ t2 = t /\ found
                /\ now' = t
                /\ ret' = [ status |-> 200, stored |-> FALSE,
                            places |-> searchCache[CacheKey(q)].results ]
                /\ UNCHANGED searchCache
           ELSE IF found
           THEN /\ now' = t2
                /\ searchCache' =
                      CleanCache(CacheSet(searchCache, CacheKey(q),
                                          [ results   |-> << CacheKey(q), t2 >>,
                                            timestamp |-> t2 ]), t2)
                /\ ret' = [ status |-> 200, stored |-> TRUE,
                            places |-> << CacheKey(q), t2 >> ]
           ELSE /\ now' = t2
                /\ ret' = [ status |-> 500 ]
                /\ UNCHANGED searchCache
        /\ UNCHANGED <<reports, nextId, inflight, dashboardSessions, cached, attempts, waiters>>

\* Search requests: the distinct queries are numbered in the order of their
\* first use, the first one is also asked in another spelling, one query is
\* empty; the clock stands at a time or six minutes later
MaxQueries == 102

\* The decimal digits of a number, as in a template literal
DigitChars == << "0", "1", "2", "3", "4", "5", "6", "7", "8", "9" >>

RECURSIVE Decimal(_)
Decimal(n) ==
    IF n < 10 THEN << DigitChars[n + 1] >>
    ELSE Decimal(n \div 10) \o << DigitChars[(n % 10) + 1] >>

Query(n) == << "k", "n", " " >> \o Decimal(n)

SpelledQuery(n) == << " ", "K", "N", " " >> \o Decimal(n) \o << " " >>

\* The first query, from the n-th on, that has no entry in the cache
RECURSIVE FirstUnused(_)
FirstUnused(n) ==
    IF n > MaxQueries \/ Query(n) \notin DOMAIN searchCache THEN n
    ELSE FirstUnused(n + 1)

SearchQueries ==
    { <<>>, SpelledQuery(1) } \cup
    { Query(n) : n \in { FirstUnused(1) } \cap (1..MaxQueries) }

SearchTimes == { MondayEight, MondayEight + CACHE_TTL + 1 }

InitSearch == Init /\ now = MondayEight

NextSearch == PlaceSearch(SearchQueries, SearchTimes)

SpecSearch == InitSearch /\ [][NextSearch]_vars

\* C22: the place-search cache holds at most 100 entries, after any sequence of
\* search requests with any queries at any times.
C22_CacheAtMost100 == Cardinality(DOMAIN searchCache) <= CacheCleanupSize

\* What the cleaning keeps: a request that stored a result leaves more than
\* 100 entries only if none of them is older than the time to live
CacheAbove100IsFresh ==
    (/\ call.op = "placeSearch"
     /\ ret.status = 200
     /\ ret.stored
     /\ Cardinality(DOMAIN searchCache) > CacheCleanupSize)
    => \A k \in DOMAIN searchCache : now - searchCache[k].timestamp <= CACHE_TTL

\* A request in another spelling is answered from the cache
CacheServes ==
    /\ call.op = "placeSearch"
    /\ call.q = SpelledQuery(1)
    /\ ret.status = 200
    /\ ~ret.stored
    /\ now = MondayEight + CACHE_TTL + 1
    /\ \A k \in DOMAIN searchCache : searchCache[k].timestamp = now

--------------------------------------------------------------------------
(* POST /api/reports: the two writes and the answer *)

\* The stores a response should name when exactly these writes succeeded
StoresWritten(dbSaved, fileWritten) ==
    IF dbSaved /\ fileWritten THEN "both"
    ELSE IF dbSaved THEN "database"
    ELSE "file"

\* C23: POST /api/reports attempts the database write and the file-store write;
\* it answers with success if and only if at least one of the two succeeded,
\* savedTo names exactly the stores that succeeded, the answer is an error only
\* when both failed, and a failed database write does not prevent the
\* file-store write.
C23_DualWrite ==
    call.op = "postReportSaved" =>
        /\ ret.status = 200 <=> (call.dbSaved \/ call.fileWritten)
        /\ ret.status = 200 => ret.savedTo = StoresWritten(call.dbSaved, call.fileWritten)
        /\ ret.status \in { 200, 500 }
        /\ Len(reports) > 0
        /\ reports[Len(reports)].roadId = call.report.roadId

\* What the handler guarantees: every accepted submission is added to the
\* store in memory and answered with success, and savedTo tells only whether
\* the database write succeeded
DualWriteAsSeen ==
    call.op = "postReportSaved" =>
        /\ ret.status = 200
        /\ ret.savedTo = (IF call.dbSaved THEN "both" ELSE "file")
        /\ Len(reports) > 0
        /\ reports[Len(reports)].roadId = call.report.roadId
        /\ reports[Len(reports)].reportType = call.report.reportType

\* Neither write succeeded and the answer names the file store
DualWriteBothFailed ==
    /\ call.op = "postReportSaved"
    /\ ~call.dbSaved
    /\ ~call.fileWritten
    /\ ret.status = 200
    /\ ret.savedTo = "file"

--------------------------------------------------------------------------
(* The coordinate tier of the matching *)

\* Number of positions of the sequence rs that hold r
Occurrences(rs, r) == Cardinality({ i \in 1..Len(rs) : rs[i] = r })

\* C24: for a segment with non-empty geometry, the coordinate-tier result is the
\* set of stored reports lying within 200 m of at least one geometry point, and
\* a report within 200 m of several points appears exactly once in it.
C24_CoordinateTier ==
    \A a \in AnnotatedSegments :
        Len(a.segment.geometry) > 0 =>
            /\ Range(CoordinateMatches(a.segment)) = ReportsWithin200m(a.segment.geometry)
            /\ \A r \in ReportsWithin200m(a.segment.geometry) :
                  Occurrences(CoordinateMatches(a.segment), r) = 1
            /\ ReportsWithin200m(a.segment.geometry) # {}
                  => a.reports = CoordinateMatches(a.segment)

\* The same statement for the reports with both coordinates non-zero, the ones
\* getReportsNearLocation can see: it holds
CoordinateTierOffAxes ==
    \A a \in AnnotatedSegments :
        LET near == { r \in ReportsWithin200m(a.segment.geometry) :
                        r.lat[1] # 0 /\ r.lng[1] # 0 }
        IN  Len(a.segment.geometry) > 0 =>
                /\ Range(CoordinateMatches(a.segment)) = near
                /\ \A r \in near : Occurrences(CoordinateMatches(a.segment), r) = 1
                /\ near # {} => a.reports = CoordinateMatches(a.segment)

\* A segment of two points with a report within 200 m of both, matched once,
\* next to a stored report that is farther away
CoordinateTierTwoPoints ==
    \E a \in AnnotatedSegments :
        /\ Len(a.segment.geometry) = 2
        /\ Len(a.reports) = 1
        /\ Len(reports) = 2
        /\ \A k \in 1..2 :
              WithinDistance(a.reports[1].lat[1], a.reports[1].lng[1],
                             a.segment.geometry[k].lat, a.segment.geometry[k].lng, 200)

\* A report on the equator, at the very point of the segment, is not matched
CoordinateTierMissesEquator ==
    \E a \in AnnotatedSegments :
        /\ a.segment.geometry = << PointZ >>
        /\ \E r \in Range(reports) : r.lat = Some(0) /\ r.lng = Some(PointZ.lng)
        /\ CoordinateMatches(a.segment) = <<>>

--------------------------------------------------------------------------
(* Specification SpecHistorical: the historical lookups called directly *)

\* if (toleranceMinutes === undefined) toleranceMinutes = 30
ToleranceOrDefault(toleranceMinutes) ==
    IF toleranceMinutes = None THEN DefaultToleranceMinutes ELSE toleranceMinutes[1]

\* roadReports.getHistoricalReports(roadId, dayOfWeek, timeWindow, toleranceMinutes)
HistoricalReports(roadIds, days, hours, tolerances) ==
    \E roadId \in roadIds, dayOfWeek \in days, timeWindow \in hours,
       toleranceMinutes \in tolerances :
        /\ call' = [ op |-> "getHistoricalReports", roadId |-> roadId,
                     dayOfWeek |-> dayOfWeek, timeWindow |-> timeWindow,
                     toleranceMinutes |-> toleranceMinutes ]
        /\ ret' = GetHistoricalReports(roadId, dayOfWeek, timeWindow,
                                       ToleranceOrDefault(toleranceMinutes))
        /\ UNCHANGED <<reports, nextId, now, inflight, aside>>

\* roadReports.getHistoricalReportsByStreetName(streetName, dayOfWeek, timeWindow,
\* toleranceMinutes)
HistoricalReportsByStreetName(names, days, hours, tolerances) ==
    \E streetName \in names, dayOfWeek \in days, timeWindow \in hours,
       toleranceMinutes \in tolerances :
        /\ call' = [ op |-> "getHistoricalReportsByStreetName",
                     streetName |-> streetName,
                     dayOfWeek |-> dayOfWeek, timeWindow |-> timeWindow,
                     toleranceMinutes |-> toleranceMinutes ]
        /\ ret' = GetHistoricalReportsByStreetName(streetName, dayOfWeek, timeWindow,
                                                   ToleranceOrDefault(toleranceMinutes))
        /\ UNCHANGED <<reports, nextId, now, inflight, aside>>

MaxHistoricalReports == 3

\* Sunday 23:45, then Monday 00:30, 07:30, 08:05 and 08:31
SundayLate == 3 * MinutesPerDay + 23 * MinutesPerHour + 45

HistoricalTimes ==
    { SundayLate, SundayLate + 45, MondayEight - 30, MondayEight + 5, MondayEight + 31 }

\* A report of road r1, a report whose name holds "kn 5" in capitals, a report
\* whose name holds "r1", and a report without a name
HistoricalPool ==
    { ReportInput(Road1, NameKG7St, "heavy", None, None),
      ReportInput(Road2, NameKN5Ave, "light", None, None),
      ReportInput(Road2, NameRoadR1, "medium", None, None),
      ReportInput(Road3, <<>>, "heavy", None, None) }

InitHistorical == Init /\ now = SundayLate

NextHistorical ==
    \/ AddReport(HistoricalPool, HistoricalTimes, MaxHistoricalReports)
    \/ HistoricalReports({ Road1, NameKn5, None }, { 1 }, { 0, 8 }, { None, Some(5) })
    \/ HistoricalReportsByStreetName({ NameKn5, None }, { 1 }, { 8 }, { None })
    \/ ByStreetName({ NameKn5, None })
    \/ HistoricalPattern({ Road1, None }, { NameKn5 }, { 1 }, { 8 })

SpecHistorical == InitHistorical /\ [][NextHistorical]_vars

\* Weekday (0 = Sunday) and minute of the day of a timestamp
Weekday(t) == ((t \div 1440) + 4) % 7

MinuteOfDay(t) == t % 1440

\* The day and time filter of the statement
PassesDayAndTime(r, day, hour, tol) ==
    /\ Weekday(r.timestamp) = day
    /\ Abs(MinuteOfDay(r.timestamp) - 60 * hour) <= tol

\* One string holds the other
ContainOneAnother(s, t) == Includes(s, t) \/ Includes(t, s)

\* C25 as stated: getHistoricalReports(roadId, day, hour, tol = 30) returns
\* exactly the stored reports on weekday day within tol minutes of hour:00 and,
\* when roadId is given, with that roadId or with a roadName that holds the
\* road key or is held by it, the strings taken as they are.
C25_ContainmentVerbatim ==
    call.op = "getHistoricalReports" =>
        ret = SelectSeq(reports, LAMBDA r :
                /\ PassesDayAndTime(r, call.dayOfWeek, call.timeWindow,
                                    IF call.toleranceMinutes = None THEN 30
                                    ELSE call.toleranceMinutes[1])
                /\ call.roadId # None =>
                      \/ r.roadId = call.roadId
                      \/ ContainOneAnother(r.roadName, call.roadId))

\* C25: getHistoricalReports(roadId, day, hour, tol = 30) returns exactly the
\* stored reports whose timestamp falls on weekday day, whose minute of the day
\* m satisfies |m - 60*hour| <= tol without wrap-around at midnight and, when
\* roadId is given, whose roadId equals it or whose roadName and the road key,
\* both in lower case, contain one another; without roadId every report
\* passing the day and time filter is returned.
C25_HistoricalReports ==
    call.op = "getHistoricalReports" =>
        ret = SelectSeq(reports, LAMBDA r :
                /\ PassesDayAndTime(r, call.dayOfWeek, call.timeWindow,
                                    IF call.toleranceMinutes = None THEN 30
                                    ELSE call.toleranceMinutes[1])
                /\ call.roadId # None =>
                      \/ r.roadId = call.roadId
                      \/ ContainOneAnother(ToLowerCase(r.roadName),
                                           ToLowerCase(call.roadId)))

\* C25 witness: the lookup of key "kn 5" for Monday, hour 0, returned the
\* report named "KN 5 Ave" of 00:30 and neither the report of Sunday 23:45
\* nor the one of 08:05
C25_Witness ==
    /\ call.op = "getHistoricalReports"
    /\ call.roadId = NameKn5
    /\ call.timeWindow = 0
    /\ call.toleranceMinutes = None
    /\ Len(reports) = 3
    /\ \A i \in 1..3 : reports[i].roadName = NameKN5Ave
    /\ reports[1].timestamp = SundayLate
    /\ reports[2].timestamp = SundayLate + 45
    /\ reports[3].timestamp = MondayEight + 5
    /\ ret = << reports[2] >>

--------------------------------------------------------------------------
(* The fields of a historical pattern *)

\* C26: for every non-null result of getHistoricalPattern, totalReports is the
\* number of historical reports selected, count is the number of selected
\* reports of the returned type, 1 <= count <= totalReports, confidence is
\* count / totalReports, and lastReportDate is the latest timestamp among all
\* selected reports, not only those of the returned type.
C26_PatternFields ==
    (call.op = "getHistoricalPattern" /\ ret # None) =>
        /\ ret[1].totalReports = Len(SelectedReports)
        /\ ret[1].count = SelectedOfType(ret[1].type)
        /\ 1 <= ret[1].count
        /\ ret[1].count <= ret[1].totalReports
        /\ ret[1].confidence = << ret[1].count, ret[1].totalReports >>
        /\ \E i \in 1..Len(SelectedReports) :
              SelectedReports[i].timestamp = ret[1].lastReportDate
        /\ \A i \in 1..Len(SelectedReports) :
              SelectedReports[i].timestamp <= ret[1].lastReportDate

\* C26 witness: a pattern of a type that only some of the selected reports
\* have, the latest selected report being of another type
C26_Witness ==
    /\ call.op = "getHistoricalPattern"
    /\ ret # None
    /\ ret[1].count < ret[1].totalReports
    /\ \A i \in 1..Len(SelectedReports) :
          SelectedReports[i].reportType = ret[1].type
              => SelectedReports[i].timestamp < ret[1].lastReportDate

--------------------------------------------------------------------------
(* Specification SpecLive: live reports next to the segment's matched reports *)

MaxLiveReports == 3

\* Monday 08:05 and 08:20, both in the window of hour 8: at 08:20 a report of
\* 08:05 is 15 minutes old
LiveTimes == { MondayEight + 5, MondayEight + 20 }

\* A report of road r2 16 m from P, and reports of road r1 without coordinates
\* and 200.1 m from P
LivePool ==
    { ReportInput(Road2, NameKG7St, "heavy", Some(-19501), Some(300501)),
      ReportInput(Road1, NameKN5Ave, "medium", None, None),
      ReportInput(Road1, NameKN5Ave, "light", Some(-19518), Some(300500)) }

LiveSegments ==
    { Segment(Road1, None, << PointP >>),
      Segment(Road1, None, <<>>),
      Segment(Road2, NameKn5, <<>>) }

LiveRouteLists == { << Route(<< segment >>) >> : segment \in LiveSegments }

InitLive == Init /\ now = MondayEight + 5

NextLive ==
    \/ AddReport(LivePool, LiveTimes, MaxLiveReports)
    \/ Alternatives(LiveRouteLists, LiveTimes)

SpecLive == InitLive /\ [][NextLive]_vars

\* C27: a historical pattern is never built from live reports: whenever a
\* segment is annotated with a non-null historicalPattern and its message,
\* none of the stored reports counted in the pattern's totalReports is less
\* than 10 minutes old at the time of the evaluation.
C27_PatternWithoutLiveReports ==
    \A a \in AnnotatedSegments :
        a.historicalPattern # None =>
            /\ a.historicalMessage # None
            /\ a.historicalPattern[1].totalReports = Len(RoadReportsInWindow(a.segment))
            /\ \A r \in Range(RoadReportsInWindow(a.segment)) : Age(r) >= RecentMinutes

\* What the test before the lookup gives: a segment with a pattern has no
\* matched report younger than 10 minutes, and its pattern counts the reports
\* the historical lookup selects from the whole store
PatternWithoutLiveMatch ==
    \A a \in AnnotatedSegments :
        a.historicalPattern # None =>
            /\ a.historicalMessage # None
            /\ ~a.hasLiveData
            /\ a.historicalPattern[1].totalReports = Len(RoadReportsInWindow(a.segment))
            /\ \A r \in Range(a.reports) : Age(r) >= RecentMinutes

\* A segment matched by its geometry with a report of 15 minutes ago has a
\* pattern made of one report of its roadId that is 0 minutes old
PatternOfLiveReport ==
    \E a \in AnnotatedSegments :
        /\ a.segment.geometry = << PointP >>
        /\ Len(a.reports) = 1
        /\ Age(a.reports[1]) = 15
        /\ a.historicalPattern # None
        /\ a.historicalPattern[1].totalReports = 1
        /\ \E r \in Range(reports) :
              r.roadId = a.segment.roadId /\ Age(r) = 0 /\ r.lat = None

--------------------------------------------------------------------------
(* Name matching and reports without a road name *)

\* The statement of C28 about the result of the last lookup
OnlyReportsNamingTheRoad ==
    /\ (call.op \in { "getReportsByStreetName", "getHistoricalReportsByStreetName" }
        /\ TruthyStr(call.streetName))
          => \A r \in Range(ret) : r.roadName # <<>>
    /\ (call.op = "getHistoricalReports" /\ TruthyStr(call.roadId))
          => \A r \in Range(ret) :
                \/ r.roadId = call.roadId
                \/ /\ r.roadName # <<>>
                   /\ ContainOneAnother(ToLowerCase(r.roadName), ToLowerCase(call.roadId))

\* C28: name matching only links reports that actually name the road: for every
\* non-empty street name, getReportsByStreetName and
\* getHistoricalReportsByStreetName never return a report whose roadName is
\* missing or empty, and getHistoricalReports with a roadId never returns a
\* report that has neither that roadId nor a non-empty roadName related to it.
C28_NameMatchingNeedsName == OnlyReportsNamingTheRoad

\* The statement holds as long as every stored report has a road name
NameMatchingOfNamedReports ==
    (\A r \in Range(reports) : Trim(r.roadName) # <<>>) => OnlyReportsNamingTheRoad

\* A lookup of "kn 5" returned a report of road r3 without a road name
NamelessReportReturned ==
    /\ call.op = "getReportsByStreetName"
    /\ call.streetName = NameKn5
    /\ \E r \in Range(ret) : r.roadName = <<>> /\ r.roadId = Road3

--------------------------------------------------------------------------
(* Server index: the dashboard sessions of /api/admin *)

\* Date.now() + (24 * 60 * 60 * 1000), in minutes
SessionLifetime == 24 * MinutesPerHour

\* if (dashboardSessions.size > 100)
SessionCleanupSize == 100

\* String.prototype.replace(t, ''): s without the first occurrence of t
ReplaceFirst(s, t) ==
    IF Includes(s, t)
    THEN LET i == CHOOSE j \in 1..(Len(s) - Len(t) + 1) :
                      /\ SubSeq(s, j, j + Len(t) - 1) = t
                      /\ \A k \in 1..(j - 1) : SubSeq(s, k, k + Len(t) - 1) # t
         IN  SubSeq(s, 1, i - 1) \o SubSeq(s, i + Len(t), Len(s))
    ELSE s

Bearer == << "B", "e", "a", "r", "e", "r", " " >>

\* req.headers.authorization?.replace('Bearer ', ''): undefined without the header
BearerToken(authorization) ==
    IF authorization = None THEN None ELSE ReplaceFirst(authorization, Bearer)

\* `dashboard_${Date.now()}_${Math.random().toString(36).substring(7)}`
SessionToken(t, random) ==
    << "d", "a", "s", "h", "b", "o", "a", "r", "d", "_" >> \o Decimal(t)
    \o << "_" >> \o random

\* session.expiresAt < Date.now(), the test of verifyDashboardSession and of
\* the cleaning
SessionExpired_AfterGrace(session, t) == session.expiresAt + 1 < t

SessionExpired(session, t) == session.expiresAt < t

\* The cleaning after a login: above the cleanup size every expired session is
\* deleted
CleanSessions(sessions, t) ==
    IF Cardinality(DOMAIN sessions) > SessionCleanupSize
    THEN [ k \in { j \in DOMAIN sessions : ~SessionExpired(sessions[j], t) } |-> sessions[k] ]
    ELSE sessions

\* POST /api/admin/login with body { password }, DASHBOARD_PASSWORD being
\* correctPassword: 400 without a password, 500 without a configured one, 401
\* for a password that is not the configured one; otherwise a session of 24
\* hours is stored under a new token. Math.random is taken to give a suffix
\* that makes the token differ from the stored ones.
AdminLogin(passwords, configured, times, randoms) ==
    \E password \in passwords, correctPassword \in configured, t \in times,
       random \in randoms :
        /\ t >= now
        /\ now' = t
        /\ call' = [ op |-> "adminLogin", password |-> password,
                     correctPassword |-> correctPassword, now |-> t ]
        /\ IF ~TruthyStr(password)
           THEN /\ ret' = [ status |-> 400 ]
                /\ UNCHANGED dashboardSessions
           ELSE IF ~TruthyStr(correctPassword)
           THEN /\ ret' = [ status |-> 500 ]
                /\ UNCHANGED dashboardSessions
           ELSE IF password # correctPassword
           THEN /\ ret' = [ status |-> 401 ]
                /\ UNCHANGED dashboardSessions
           ELSE /\ SessionToken(t, random) \notin DOMAIN dashboardSessions
                /\ dashboardSessions' =
                      CleanSessions(
                          [ k \in DOMAIN dashboardSessions \cup { SessionToken(t, random) } |->
                              IF k = SessionToken(t, random)
                              THEN [ expiresAt |-> t + SessionLifetime, createdAt |-> t ]
                              ELSE dashboardSessions[k] ], t)
                /\ ret' = [ status |-> 200, success |-> TRUE,
                            token |-> SessionToken(t, random),
                            expiresAt |-> t + SessionLifetime ]
        /\ UNCHANGED <<reports, nextId, inflight, searchCache, cached, attempts, waiters>>

\* POST /api/admin/logout: the session of the token, if there is one, is
\* deleted; the answer is a success in every case
AdminLogout(headers) ==
    \E authorization \in headers :
        /\ call' = [ op |-> "adminLogout", authorization |-> authorization ]
        /\ dashboardSessions' =
              IF /\ TruthyStr(BearerToken(authorization))
                 /\ BearerToken(authorization) \in DOMAIN dashboardSessions
              THEN [ k \in DOMAIN dashboardSessions \ { BearerToken(authorization) } |->
                       dashboardSessions[k] ]
              ELSE dashboardSessions
        /\ ret' = [ status |-> 200, success |-> TRUE ]
        /\ UNCHANGED <<reports, nextId, now, inflight, searchCache, cached, attempts, waiters>>

\* verifyDashboardSession(req, res, next) at time t: 401 without a token, 401
\* without a session of the token, 401 for an expired session, which is
\* deleted; otherwise next() is called
VerifyDashboardSession(headers, times) ==
    \E authorization \in headers, t \in times :
        /\ t >= now
        /\ now' = t
        /\ call' = [ op |-> "verifyDashboardSession", authorization |-> authorization,
                     now |-> t ]
        /\ IF ~TruthyStr(BearerToken(authorization))
           THEN /\ ret' = [ status |-> 401 ]
                /\ UNCHANGED dashboardSessions
           ELSE IF BearerToken(authorization) \notin DOMAIN dashboardSessions
           THEN /\ ret' = [ status |-> 401 ]
                /\ UNCHANGED dashboardSessions
           ELSE IF SessionExpired(dashboardSessions[BearerToken(authorization)], t)
           THEN /\ ret' = [ status |-> 401 ]
                /\ dashboardSessions' =
                      [ k \in DOMAIN dashboardSessions \ { BearerToken(authorization) } |->
                          dashboardSessions[k] ]
           ELSE /\ ret' = [ status |-> 0, next |-> TRUE ]
                /\ UNCHANGED dashboardSessions
        /\ UNCHANGED <<reports, nextId, inflight, searchCache, cached, attempts, waiters>>

\* Passwords, clock values a lifetime apart, and the Authorization headers of
\* the tokens that can be issued, with and without "Bearer "
Secret == << "s", "3", "c", "r", "e", "t" >>

Guess == << "s", "3", "c", "r", "e", "T" >>

SessionTimes == { MondayEight, MondayEight + SessionLifetime, MondayEight + SessionLifetime + 1 }

SessionRandoms == { << "a" >>, << "b" >> }

SessionTokens == { SessionToken(t, random) : t \in SessionTimes, random \in SessionRandoms }

SessionHeaders ==
    { None, Bearer, SessionToken(MondayEight, << "a" >>) }
    \cup { Bearer \o token : token \in SessionTokens }
    \cup { Bearer \o Bearer \o SessionToken(MondayEight, << "a" >>) }

InitSessions == Init /\ now = MondayEight

NextSessions ==
    \/ AdminLogin({ None, Secret, Guess }, { None, Secret }, SessionTimes, SessionRandoms)
    \/ AdminLogout(SessionHeaders)
    \/ VerifyDashboardSession(SessionHeaders, SessionTimes)

SpecSessions == InitSessions /\ [][NextSessions]_vars

\* The token a request presented
PresentedToken(request) == BearerToken(request.authorization)

\* C29: a token is accepted by verifyDashboardSession only if it was issued by
\* a login with the correct password, has not been logged out and its expiry,
\* 24 hours after the login, has not passed; a request with a token that was
\* logged out or has expired is rejected with 401, and a login with a wrong or
\* missing password creates no session. In steps: a session enters the map only
\* by a login with the configured password, under the token the login returns
\* and with an expiry 24 hours later, it is never changed, a logout removes
\* the session of its token, and next() is called only for a token with a
\* session whose expiry has not passed.
C29_SessionLifetime ==
    [][ /\ \A k \in DOMAIN dashboardSessions' \ DOMAIN dashboardSessions :
              /\ call'.op = "adminLogin"
              /\ call'.password # None
              /\ call'.password = call'.correctPassword
              /\ ret'.status = 200
              /\ ret'.token = k
              /\ ret'.expiresAt = call'.now + 24 * 60
              /\ dashboardSessions'[k].expiresAt = call'.now + 24 * 60
        /\ \A k \in DOMAIN dashboardSessions' \cap DOMAIN dashboardSessions :
              dashboardSessions'[k] = dashboardSessions[k]
        /\ (call'.op = "adminLogin" /\ (call'.password = None
                                        \/ call'.password # call'.correctPassword))
              => /\ dashboardSessions' = dashboardSessions
                 /\ ret'.status \in { 400, 401, 500 }
        /\ (call'.op = "adminLogout" /\ PresentedToken(call') # None)
              => PresentedToken(call') \notin DOMAIN dashboardSessions'
        /\ call'.op = "verifyDashboardSession"
              => IF /\ PresentedToken(call') \in DOMAIN dashboardSessions
                    /\ call'.now <= dashboardSessions[PresentedToken(call')].expiresAt
                 THEN ret'.status \in { 0, 401 }
                 ELSE /\ ret'.status = 401
                      /\ PresentedToken(call') \notin DOMAIN dashboardSessions'
      ]_vars

\* C29 witness: a token issued by the second login of a minute was accepted at
\* the very minute of its expiry, no other session being left
C29_Witness ==
    /\ call.op = "verifyDashboardSession"
    /\ ret.status = 0
    /\ ret.next
    /\ PresentedToken(call) \in DOMAIN dashboardSessions
    /\ call.now = dashboardSessions[PresentedToken(call)].expiresAt
    /\ DOMAIN dashboardSessions = { SessionToken(MondayEight, << "b" >>) }

\* A token was rejected one minute after its expiry and its session deleted
SessionRejectedAfterExpiry ==
    /\ call.op = "verifyDashboardSession"
    /\ ret.status = 401
    /\ PresentedToken(call) = SessionToken(MondayEight, << "a" >>)
    /\ call.now = MondayEight + 24 * 60 + 1
    /\ DOMAIN dashboardSessions = { SessionToken(MondayEight + 24 * 60, << "a" >>) }

--------------------------------------------------------------------------
(* config/database.js: connectDB and the cached connection *)

\* The numbers of the mongoose.connect calls that have not settled
PendingAttempts == { i \in 1..Len(attempts) : attempts[i] = "pending" }

\* if (!cached.promise), with the test left out
NeedsAttempt_Always(c) == TRUE

\* if (!cached.promise): no connection is in progress
NeedsAttempt(c) == c.promise = None

\* connectDB() up to its await, called by a request handler while MONGODB_URI
\* is uri: a cached connection is returned at once; without a promise in the
\* cache, and with a URI, mongoose.connect is called and its promise cached
\* (without a URI the call throws); then the call waits for the cached promise
ConnectBegin(callers, uris, maxAttempts, maxWaiters) ==
    \E caller \in callers, uri \in uris :
        /\ call' = [ op |-> "connectDB", caller |-> caller, uri |-> uri ]
        /\ IF cached.conn # None
           THEN /\ ret' = [ state |-> "returned", conn |-> cached.conn[1] ]
                /\ UNCHANGED <<cached, attempts, waiters>>
           ELSE IF NeedsAttempt(cached) /\ uri = None
           THEN /\ ret' = [ state |-> "threw" ]
                /\ UNCHANGED <<cached, attempts, waiters>>
           ELSE /\ Len(waiters) < maxWaiters
                /\ IF NeedsAttempt(cached)
                   THEN /\ Len(attempts) < maxAttempts
                        /\ attempts' = Append(attempts, "pending")
                        /\ cached' = [ cached EXCEPT !.promise = Some(Len(attempts) + 1) ]
                   ELSE UNCHANGED <<cached, attempts>>
                /\ waiters' = Append(waiters, [ caller  |-> caller,
                                                promise |-> cached'.promise[1] ])
                /\ ret' = [ state |-> "pending" ]
        /\ UNCHANGED <<reports, nextId, now, inflight, searchCache, dashboardSessions>>

\* mongoose.connect number n resolves: the promise made of it resolves, and
\* every call waiting for it stores the connection in cached.conn and returns it
ConnectResolves ==
    \E n \in PendingAttempts :
        /\ attempts' = [ attempts EXCEPT ![n] = "connected" ]
        /\ cached' = IF \E i \in 1..Len(waiters) : waiters[i].promise = n
                     THEN [ cached EXCEPT !.conn = Some(n) ]
                     ELSE cached
        /\ waiters' = SelectSeq(waiters, LAMBDA w : w.promise # n)
        /\ call' = [ op |-> "connectSettled", attempt |-> n ]
        /\ ret' = [ state |-> "returned", conn |-> n,
                    callers |-> SelectSeq(waiters, LAMBDA w : w.promise = n) ]
        /\ UNCHANGED <<reports, nextId, now, inflight, searchCache, dashboardSessions>>

\* mongoose.connect number n rejects: the catch handler of the promise clears
\* cached.promise and rethrows, and every call waiting for the promise clears
\* cached.promise again and throws. The handler and the continuations of the
\* waiting calls run in one turn of the promise jobs, before any other request
\* is handled.
ConnectRejects ==
    \E n \in PendingAttempts :
        /\ attempts' = [ attempts EXCEPT ![n] = "failed" ]
        /\ cached' = [ cached EXCEPT !.promise = None ]
        /\ waiters' = SelectSeq(waiters, LAMBDA w : w.promise # n)
        /\ call' = [ op |-> "connectSettled", attempt |-> n ]
        /\ ret' = [ state |-> "threw",
                    callers |-> SelectSeq(waiters, LAMBDA w : w.promise = n) ]
        /\ UNCHANGED <<reports, nextId, now, inflight, searchCache, dashboardSessions>>

MaxAttempts == 3

MaxWaiters == 3

\* The handlers that call connectDB, and MONGODB_URI set or not
ConnectCallers == { "reports", "stats" }

MongoUri == << "m", "o", "n", "g", "o", "d", "b", ":", "/", "/", "h" >>

InitConnect == Init /\ now = MondayEight

NextConnect ==
    \/ ConnectBegin(ConnectCallers, { None, Some(MongoUri) }, MaxAttempts, MaxWaiters)
    \/ ConnectResolves
    \/ ConnectRejects

SpecConnect == InitConnect /\ [][NextConnect]_vars

\* C30: at most one mongoose.connect attempt is in flight at a time; once an
\* attempt has succeeded it is the last one, its connection is cached and every
\* call returns it without connecting again; after a failed attempt the cached
\* promise is cleared, so that the cache never holds the promise of a failed
\* attempt and a later call waits for a fresh attempt.
C30_ConnectionCaching ==
    /\ Cardinality(PendingAttempts) <= 1
    /\ \A i \in 1..Len(attempts) :
          attempts[i] = "connected" =>
              /\ i = Len(attempts)
              /\ cached.conn = Some(i)
              /\ call.op = "connectDB" => ret = [ state |-> "returned", conn |-> i ]
    /\ cached.conn # None => attempts[cached.conn[1]] = "connected"
    /\ cached.promise # None => attempts[cached.promise[1]] # "failed"
    /\ \A i \in 1..Len(waiters) :
          /\ cached.promise = Some(waiters[i].promise)
          /\ attempts[waiters[i].promise] = "pending"
    /\ (call.op = "connectDB" /\ ret.state = "pending") =>
          /\ PendingAttempts = { Len(attempts) }
          /\ cached.promise = Some(Len(attempts))

\* C30 witness: the first attempt failed; the second one was started by a later
\* call, joined by another call, and succeeded; a call after that got its
\* connection
C30_Witness ==
    /\ attempts = << "failed", "connected" >>
    /\ cached.conn = Some(2)
    /\ waiters = <<>>
    /\ call.op = "connectDB"
    /\ ret = [ state |-> "returned", conn |-> 2 ]

==========================================================================
